---- MODULE Spec2Model ----
(***************************************************************************)
(* Model of the Responses implementation of llama-stack:                   *)
(*   OpenAIResponsesImpl (providers/inline/agents/meta_reference/          *)
(*   responses/openai_responses.py), the event schema                      *)
(*   (apis/agents/openai_responses.py) and the collaborators it drives.    *)
(*                                                                         *)
(* One response is produced by three nested coroutines:                    *)
(*   the consumer  (the loop of create_openai_response, or a streaming     *)
(*                  client),                                               *)
(*   the relay     (_create_streaming_response, an async generator), and   *)
(*   the orchestrator (StreamingResponseOrchestrator.create_response).     *)
(***************************************************************************)
EXTENDS Integers, Sequences, FiniteSets, TLC

\* ------------------------------------------------------------------ bounds
\* Number of create_openai_response calls in one behaviour.
MaxRequests == 2
\* Length of an arbitrary orchestrator stream (specification SpecAny).
MaxStream == 3
\* Text deltas of one model turn.
MaxDeltas == 1
\* Largest max_infer_iters a request may ask for.
MaxIters == 2
\* Tool calls one model turn may declare (specification SpecTools).
MaxToolCalls == 2
\* Words of a model name in an error message (specification SpecSanitizer).
MaxName == 2
\* Jobs of one scheduler, persisted and scheduled.
MaxJobs == 2
\* Largest max_concurrent_jobs of a scheduler configuration.
MaxConcurrentJobs == 1
\* Jobs of the KVStore that a restarted scheduler recovers, and the largest
\* max_concurrent_jobs of its configuration (specification SpecRestart).
MaxRecovered == 4
MaxRestartSlots == 2

\* Jobs of a job table that list_jobs reads; also the largest limit and offset
MaxListed == 3

\* Successive pages a client asks of list_jobs
MaxPages == 3

Texts == {"a", "b"}

None == 0

\* ------------------------------------------------------------ data model
\* content: str | list[...] of OpenAIResponseMessage
StrContent(t) == [kind |-> "str", text |-> t]
ListContent(parts) == [kind |-> "list", parts |-> parts]
InputText(t) == [type |-> "input_text", text |-> t]
OutputText(t) == [type |-> "output_text", text |-> t]

OpenAIResponseContentPartRefusal(t) == [type |-> "refusal", refusal |-> t]

OpenAIResponseMessage(role, content, id) ==
    [type |-> "message", role |-> role, content |-> content, id |-> id]

OpenAIResponseInputFunctionToolCallOutput(call_id, output) ==
    [type |-> "function_call_output", call_id |-> call_id, output |-> output, id |-> None]

OpenAIResponseOutputMessageMCPCall(id, err) ==
    [type |-> "mcp_call", id |-> id, error |-> err]

\* error: OpenAIResponseError | None = None
NoError == [code |-> "none", message |-> <<>>]

OpenAIResponseObject(id, status, output) ==
    [id |-> id, status |-> status, output |-> output, error |-> NoError]

\* input: str | list[OpenAIResponseInput]
StrInput(t) == [kind |-> "str", text |-> t]
ListInput(items) == [kind |-> "list", items |-> items]

IsStr(x) == x.kind = "str"

\* ---------------------------------------------------------------- events
\* response.created and response.completed have no sequence_number field.
OpenAIResponseObjectStreamResponseCreated(response) ==
    [type |-> "response.created", response |-> response]

OpenAIResponseObjectStreamResponseCompleted(response) ==
    [type |-> "response.completed", response |-> response]

OpenAIResponseObjectStreamResponseIncomplete(response, n) ==
    [type |-> "response.incomplete", response |-> response, sequence_number |-> n]

OpenAIResponseObjectStreamResponseFailed(response, n) ==
    [type |-> "response.failed", response |-> response, sequence_number |-> n]

\* Every other variant of OpenAIResponseObjectStream: a type, a
\* sequence_number and the position of the entity it describes.
StreamEvent(type, n, output_index) ==
    [type |-> type, sequence_number |-> n, output_index |-> output_index]

TerminalTypes == {"response.completed", "response.incomplete", "response.failed"}
StoredTypes == {"response.completed", "response.incomplete"}

NoResponse == [id |-> None, status |-> "none", output |-> <<>>, error |-> NoError]

\* conversation: str | None, a conversation id being a prefix and a key.
NoConversation == [prefix |-> "none", key |-> 0]
ConversationId(prefix, key) == [prefix |-> prefix, key |-> key]

\* ------------------------------------------------ conversion to chat messages
\* utils.convert_response_input_to_chat_messages: an input item becomes a chat
\* message (role, text parts); ids and item types are not kept.
ContentTexts(content) ==
    IF content.kind = "str" THEN <<content.text>>
    ELSE [i \in 1..Len(content.parts) |->
            IF content.parts[i].type = "refusal" THEN content.parts[i].refusal
            ELSE content.parts[i].text]

OpenAIMessageParam(role, texts) == [role |-> role, content |-> texts]

convert_item_to_chat_message(item) ==
    IF item.type = "message" THEN OpenAIMessageParam(item.role, ContentTexts(item.content))
    ELSE IF item.type = "function_call_output" THEN OpenAIMessageParam("tool", <<item.output>>)
    ELSE OpenAIMessageParam("assistant", <<"tool_call">>)

convert_response_input_to_chat_messages(input) ==
    IF IsStr(input) THEN <<OpenAIMessageParam("user", <<input.text>>)>>
    ELSE [i \in 1..Len(input.items) |-> convert_item_to_chat_message(input.items[i])]

OpenAISystemMessageParam(t) == OpenAIMessageParam("system", <<t>>)

\* --------------------------------------------------- OpenAIResponsesImpl helpers
\* A variant that puts the previous output before the previous input.
prepend_previous_response_output_first(input, previous_response) ==
    LET new_input_items == previous_response.output \o previous_response.input
    IN  IF IsStr(input)
        THEN Append(new_input_items, OpenAIResponseMessage("user", StrContent(input.text), None))
        ELSE new_input_items \o input.items

\* _prepend_previous_response: previous.input ++ previous.output ++ new input.
prepend_previous_response(input, previous_response) ==
    LET new_input_items == previous_response.input \o previous_response.output
    IN  IF IsStr(input)
        THEN Append(new_input_items, OpenAIResponseMessage("user", StrContent(input.text), None))
        ELSE new_input_items \o input.items

\* _prepend_instructions
prepend_instructions(messages, instructions) ==
    IF instructions # "" THEN <<OpenAISystemMessageParam(instructions)>> \o messages
    ELSE messages

\* pydantic model_dump() of a message: every declared field is a key of the
\* dict, a field that is None included.
model_dump(item) == item

\* _store_response: the input items handed to store_response_object.
store_input_item(input_item, new_input_id) ==
    IF input_item.type = "message"
    THEN LET input_item_dict == model_dump(input_item)
         IN  IF "id" \notin DOMAIN input_item_dict
             THEN [type |-> "message", role |-> input_item_dict.role,
                   content |-> input_item_dict.content, id |-> new_input_id]
             ELSE input_item_dict
    ELSE input_item

store_input_items_data(input, new_input_id) ==
    IF IsStr(input)
    THEN <<OpenAIResponseMessage("user", ListContent(<<InputText(input.text)>>), new_input_id)>>
    ELSE [i \in 1..Len(input.items) |-> store_input_item(input.items[i], new_input_id)]

\* _load_conversation_context, the loop over conversation_items.data: the user
\* and assistant messages, in order; every other item is skipped.
RECURSIVE context_messages_of(_)
context_messages_of(items) ==
    IF items = <<>> THEN <<>>
    ELSE LET item == Head(items)
         IN  (IF item.type = "message" /\ item.role \in {"user", "assistant"}
              THEN <<OpenAIResponseMessage(item.role, item.content, item.id)>>
              ELSE <<>>) \o context_messages_of(Tail(items))

load_conversation_context(conversation_items, content) ==
    LET context_messages == context_messages_of(conversation_items)
    IN  IF IsStr(content)
        THEN Append(context_messages, OpenAIResponseMessage("user", StrContent(content.text), None))
        ELSE context_messages \o content.items

\* _sync_response_to_conversation: the conversation items built from the
\* content and from the assistant messages of the response.
sync_unsupported(item) ==
    \/ item.type # "message"
    \/ item.role \notin {"user", "assistant"}
    \/ item.role = "assistant" /\ item.content.kind # "list"

sync_raises(content) ==
    ~IsStr(content) /\ \E i \in 1..Len(content.items) : sync_unsupported(content.items[i])

sync_content_item(item) ==
    IF item.role = "user" /\ item.content.kind = "str"
    THEN OpenAIResponseMessage("user", ListContent(<<InputText(item.content.text)>>), None)
    ELSE OpenAIResponseMessage(item.role, item.content, None)

RECURSIVE sync_output_items(_)
sync_output_items(output) ==
    IF output = <<>> THEN <<>>
    ELSE LET output_item == Head(output)
         IN  (IF output_item.type = "message" /\ output_item.role = "assistant"
                 /\ output_item.content.kind = "list"
              THEN <<OpenAIResponseMessage("assistant", output_item.content, None)>>
              ELSE <<>>) \o sync_output_items(Tail(output))

sync_conversation_items(content, response) ==
    (IF IsStr(content)
     THEN <<OpenAIResponseMessage("user", ListContent(<<InputText(content.text)>>), None)>>
     ELSE [i \in 1..Len(content.items) |-> sync_content_item(content.items[i])])
    \o sync_output_items(response.output)

\* ------------------------------------------------------------ ResponsesStore
\* responses_store.get_response_object / store_response_object
has_response_object(store, response_id) == response_id \in DOMAIN store

get_response_object(store, response_id) ==
    [input |-> store[response_id].input,
     output |-> store[response_id].response.output,
     messages |-> store[response_id].messages]

store_response_object(store, response_object, input, messages) ==
    (response_object.id :> [response |-> response_object, input |-> input, messages |-> messages])
        @@ store

\* A response stored before raw messages were kept with a response: the store
\* holds its input and output, and no messages.
LegacyResponseId == 0 - 1

\* A variant that reconverts the previous input and output also when the
\* previous response has stored messages.
process_input_reconverting(input, previous_response_id, store) ==
    IF previous_response_id # None
    THEN IF ~has_response_object(store, previous_response_id)
         THEN [raised |-> TRUE, all_input |-> input, messages |-> <<>>]
         ELSE LET previous_response == get_response_object(store, previous_response_id)
                  all_input == ListInput(prepend_previous_response(input, previous_response))
              IN  [raised |-> FALSE, all_input |-> all_input,
                   messages |-> convert_response_input_to_chat_messages(all_input)]
    ELSE [raised |-> FALSE, all_input |-> input,
          messages |-> convert_response_input_to_chat_messages(input)]

\* A variant that treats a previous response the store does not hold as absent.
process_input_ignoring_missing(input, previous_response_id, store) ==
    IF previous_response_id # None /\ has_response_object(store, previous_response_id)
    THEN LET previous_response == get_response_object(store, previous_response_id)
             all_input == ListInput(prepend_previous_response(input, previous_response))
         IN  [raised |-> FALSE, all_input |-> all_input,
              messages |->
                 IF previous_response.messages # <<>>
                 THEN previous_response.messages \o convert_response_input_to_chat_messages(input)
                 ELSE convert_response_input_to_chat_messages(all_input)]
    ELSE [raised |-> FALSE, all_input |-> input,
          messages |-> convert_response_input_to_chat_messages(input)]

\* _process_input_with_previous_response: (all_input, messages), or the error
\* of the store lookup.
process_input_with_previous_response(input, previous_response_id, store) ==
    IF previous_response_id # None
    THEN IF ~has_response_object(store, previous_response_id)
         THEN [raised |-> TRUE, all_input |-> input, messages |-> <<>>]
         ELSE LET previous_response == get_response_object(store, previous_response_id)
                  all_input == ListInput(prepend_previous_response(input, previous_response))
              IN  [raised |-> FALSE,
                   all_input |-> all_input,
                   messages |->
                      IF previous_response.messages # <<>>
                      THEN previous_response.messages \o convert_response_input_to_chat_messages(input)
                      ELSE convert_response_input_to_chat_messages(all_input)]
    ELSE [raised |-> FALSE, all_input |-> input,
          messages |-> convert_response_input_to_chat_messages(input)]

\* utils.extract_shield_ids: the ids of the shields given as strings or as
\* shield specifications; other formats are skipped.
RECURSIVE extract_shield_ids(_)
extract_shield_ids(shields) ==
    IF shields = <<>> THEN <<>>
    ELSE (IF Head(shields).kind \in {"str", "spec"} THEN <<Head(shields).id>> ELSE <<>>)
         \o extract_shield_ids(Tail(shields))

\* --------------------------------------------------------------- SafetyGate
\* safety_api.routing_table.list_shields(): identifier -> provider_resource_id.
Shields ==
    [id \in {"llama-guard", "content-filter"} |->
        IF id = "llama-guard" THEN "llama-guard-model" ELSE "content-filter-model"]
ShieldModels == {Shields[id] : id \in DOMAIN Shields}

ViolationMessage == "Content flagged by moderation"

\* The text handed to the gate: the non-empty pieces of text of the messages,
\* in order; <<>> is the empty text.
RECURSIVE combined_text(_)
combined_text(messages) ==
    IF messages = <<>> THEN <<>>
    ELSE SelectSeq(Head(messages).content, LAMBDA t : t # "") \o combined_text(Tail(messages))

\* The text of the output: the text parts of its messages.
RECURSIVE output_text(_)
output_text(output) ==
    IF output = <<>> THEN <<>>
    ELSE (IF Head(output).type = "message"
          THEN SelectSeq(ContentTexts(Head(output).content), LAMBDA t : t # "")
          ELSE <<>>) \o output_text(Tail(output))

\* safety_api.run_moderation(input, model) for every guardrail, flagged being
\* the answer of the backend for each model.
run_moderations(text, guardrail_ids, side, flagged) ==
    [i \in 1..Len(guardrail_ids) |->
        [model |-> Shields[guardrail_ids[i]], input |-> text, side |-> side,
         flagged |-> flagged[Shields[guardrail_ids[i]]]]]

\* A variant that contacts the backend also for an empty text.
apply_guardrails_without_empty_test(text, guardrail_ids, side, flagged) ==
    LET moderations == run_moderations(text, guardrail_ids, side, flagged)
    IN  [violation |-> IF \E i \in 1..Len(moderations) : moderations[i].flagged
                       THEN ViolationMessage ELSE "none",
         moderations |-> moderations]

\* A variant that decides on the answer for the first guardrail alone.
apply_guardrails_first_only(text, guardrail_ids, side, flagged) ==
    IF guardrail_ids = <<>> \/ text = <<>>
    THEN [violation |-> "none", moderations |-> <<>>]
    ELSE LET moderations == run_moderations(text, guardrail_ids, side, flagged)
         IN  [violation |-> IF moderations[1].flagged THEN ViolationMessage ELSE "none",
              moderations |-> moderations]

\* _apply_guardrails(text): the violation message or "none", and the
\* moderation calls made.
apply_guardrails(text, guardrail_ids, side, flagged) ==
    IF guardrail_ids = <<>> \/ text = <<>>
    THEN [violation |-> "none", moderations |-> <<>>]
    ELSE LET moderations == run_moderations(text, guardrail_ids, side, flagged)
         IN  [violation |-> IF \E i \in 1..Len(moderations) : moderations[i].flagged
                            THEN ViolationMessage ELSE "none",
              moderations |-> moderations]

\* A variant of the refusal whose completed response holds a text message.
create_refusal_response_events_as_text(refusal_content, response_id) ==
    << OpenAIResponseObjectStreamResponseCreated(
           OpenAIResponseObject(response_id, "in_progress", <<>>)),
       OpenAIResponseObjectStreamResponseCompleted(
           OpenAIResponseObject(response_id, "completed",
               <<OpenAIResponseMessage("assistant",
                     ListContent(<<OutputText(refusal_content.refusal)>>), None)>>)) >>

\* _create_refusal_response_events: the two events of a refusal.
create_refusal_response_events(refusal_content, response_id) ==
    << OpenAIResponseObjectStreamResponseCreated(
           OpenAIResponseObject(response_id, "in_progress", <<>>)),
       OpenAIResponseObjectStreamResponseCompleted(
           OpenAIResponseObject(response_id, "completed",
               <<OpenAIResponseMessage("assistant", ListContent(<<refusal_content>>), None)>>)) >>

\* --------------------------------------------- _create_streaming_response
\* The loop body before the yield: the terminal responses remembered.
relay_final_response(final_response, stream_chunk) ==
    IF stream_chunk.type \in {"response.completed", "response.incomplete"}
    THEN stream_chunk.response ELSE final_response

relay_failed_response(failed_response, stream_chunk) ==
    IF stream_chunk.type = "response.failed" THEN stream_chunk.response ELSE failed_response

\* Variants of the yield that keep an event from the consumer.
relay_yield_skip_failed(received, stream_chunk) ==
    IF stream_chunk.type = "response.failed" THEN received ELSE Append(received, stream_chunk)

relay_yield_skip_deltas(received, stream_chunk) ==
    IF stream_chunk.type = "response.output_text.delta" THEN received
    ELSE Append(received, stream_chunk)

\* yield stream_chunk: what the consumer has received so far.
relay_yield(received, stream_chunk) == Append(received, stream_chunk)

\* A variant of the store condition without the test of failed_response.
should_store_ignoring_failed(stream_chunk, store, final_response, failed_response) ==
    /\ stream_chunk.type \in {"response.completed", "response.incomplete"}
    /\ store
    /\ final_response # NoResponse

\* The conditions of the two statements after the yield.
should_store(stream_chunk, store, final_response, failed_response) ==
    /\ stream_chunk.type \in {"response.completed", "response.incomplete"}
    /\ store
    /\ final_response # NoResponse
    /\ failed_response = NoResponse

should_sync(stream_chunk, conversation, final_response) ==
    /\ stream_chunk.type \in {"response.completed", "response.incomplete"}
    /\ conversation # NoConversation
    /\ final_response # NoResponse

\* ------------------------------------- create_openai_response, stream = False
\* A variant that only rejects a second terminal event of the same type.
consume_multiple_terminal_same_type(frame, stream_chunk) ==
    /\ stream_chunk.type \in {"response.completed", "response.incomplete"}
    /\ frame.final_response # NoResponse
    /\ frame.final_event_type = stream_chunk.type

\* The body of the loop over stream_gen.
consume_multiple_terminal(frame, stream_chunk) ==
    /\ stream_chunk.type \in {"response.completed", "response.incomplete"}
    /\ frame.final_response # NoResponse

\* A variant of the loop body that remembers the response of response.completed
\* only.
consume_chunk_ignoring_incomplete(frame, stream_chunk) ==
    IF stream_chunk.type = "response.completed"
    THEN [frame EXCEPT !.final_response = stream_chunk.response,
                       !.final_event_type = stream_chunk.type]
    ELSE IF stream_chunk.type = "response.failed"
    THEN [frame EXCEPT !.failed_response = stream_chunk.response]
    ELSE frame

consume_chunk(frame, stream_chunk) ==
    IF stream_chunk.type \in {"response.completed", "response.incomplete"}
    THEN [frame EXCEPT !.final_response = stream_chunk.response,
                       !.final_event_type = stream_chunk.type]
    ELSE IF stream_chunk.type = "response.failed"
    THEN [frame EXCEPT !.failed_response = stream_chunk.response]
    ELSE frame

\* error_message of the RuntimeError: the message of the error of the failed
\* response, or a fixed text.
error_message(failed_response) ==
    IF failed_response.error # NoError THEN failed_response.error.message
    ELSE <<"Response stream failed without error details">>

\* A variant of the statements after the loop that looks at final_response
\* first.
finish_call_final_first(frame) ==
    IF frame.final_response # NoResponse
    THEN [frame EXCEPT !.pc = "returned", !.result = frame.final_response]
    ELSE IF frame.failed_response # NoResponse
    THEN [frame EXCEPT !.pc = "raised", !.error = "RuntimeError: OpenAI response failed",
                       !.error_message = error_message(frame.failed_response)]
    ELSE [frame EXCEPT !.pc = "raised", !.error = "ValueError: never reached a terminal state"]

\* The statements after the loop.
finish_call(frame) ==
    IF frame.failed_response # NoResponse
    THEN [frame EXCEPT !.pc = "raised", !.error = "RuntimeError: OpenAI response failed",
                       !.error_message = error_message(frame.failed_response)]
    ELSE IF frame.final_response = NoResponse
    THEN [frame EXCEPT !.pc = "raised", !.error = "ValueError: never reached a terminal state"]
    ELSE [frame EXCEPT !.pc = "returned", !.result = frame.final_response]

\* A variant that looks the conversation up before it validates the parameters.
request_preamble_lookup_first(input, previous_response_id, conversation, convs) ==
    IF conversation # NoConversation
    THEN IF conversation.prefix # "conv_"
         THEN [error |-> "InvalidConversationIdError", calls |-> <<>>, input |-> input]
         ELSE IF conversation.key \notin DOMAIN convs
         THEN [error |-> "ConversationNotFoundError",
               calls |-> <<"conversations.get_conversation">>, input |-> input]
         ELSE IF previous_response_id # None
         THEN [error |-> "ValueError: mutually exclusive parameters",
               calls |-> <<"conversations.get_conversation">>, input |-> input]
         ELSE [error |-> "none",
               calls |-> <<"conversations.get_conversation", "conversations.list">>,
               input |-> ListInput(load_conversation_context(convs[conversation.key], input))]
    ELSE [error |-> "none", calls |-> <<>>, input |-> input]

\* A variant that asks the conversations API for the conversation before it
\* looks at the form of the id.
request_preamble_get_first(input, previous_response_id, conversation, convs) ==
    IF conversation # NoConversation /\ previous_response_id # None
    THEN [error |-> "ValueError: mutually exclusive parameters", calls |-> <<>>, input |-> input]
    ELSE IF conversation # NoConversation
    THEN IF conversation.key \notin DOMAIN convs
         THEN [error |-> "ConversationNotFoundError",
               calls |-> <<"conversations.get_conversation">>, input |-> input]
         ELSE IF conversation.prefix # "conv_"
         THEN [error |-> "InvalidConversationIdError",
               calls |-> <<"conversations.get_conversation">>, input |-> input]
         ELSE [error |-> "none",
               calls |-> <<"conversations.get_conversation", "conversations.list">>,
               input |-> ListInput(load_conversation_context(convs[conversation.key], input))]
    ELSE [error |-> "none", calls |-> <<>>, input |-> input]

\* create_openai_response up to the creation of stream_gen: the validation of
\* the continuation parameters and the loading of the conversation.
request_preamble(input, previous_response_id, conversation, convs) ==
    IF conversation # NoConversation /\ previous_response_id # None
    THEN [error |-> "ValueError: mutually exclusive parameters", calls |-> <<>>, input |-> input]
    ELSE IF conversation # NoConversation
    THEN IF conversation.prefix # "conv_"
         THEN [error |-> "InvalidConversationIdError", calls |-> <<>>, input |-> input]
         ELSE IF conversation.key \notin DOMAIN convs
         THEN [error |-> "ConversationNotFoundError",
               calls |-> <<"conversations.get_conversation">>, input |-> input]
         ELSE [error |-> "none",
               calls |-> <<"conversations.get_conversation", "conversations.list">>,
               input |-> ListInput(load_conversation_context(convs[conversation.key], input))]
    ELSE [error |-> "none", calls |-> <<>>, input |-> input]

\* ----------------------------------------------------------------- state
VARIABLES
    responses_store,  \* ResponsesStore: response id -> response, input, messages
    conversations,    \* Conversations: conversation key -> items
    requests,         \* number of create_openai_response calls made
    req,              \* the arguments of the current call
    call,             \* the frame of create_openai_response / the consumer
    gen,              \* the frame of the generator _create_streaming_response
    orchestrator,     \* the StreamingResponseOrchestrator of the response
    delivered,        \* the events the consumer has received
    calls,            \* the backend calls made for the current request
    safety_api,       \* the moderation calls the safety backend has answered
    runtime_error,    \* the RuntimeError handed to sanitize_runtime_error
    sanitized,        \* what sanitize_runtime_error returned for it
    failed_error,     \* the error of the response that failed with it
    jobs,             \* InlineSchedulerImpl._jobs: the ids of the job table
    job_dicts,        \* the job dictionaries of the process, by job id
    kvstore,          \* the KVStore: job id -> the persisted job
    tasks,            \* the asyncio task of _run_job of every job
    semaphore,        \* the free slots of InlineSchedulerImpl._semaphore
    executors,        \* the job types of InlineSchedulerImpl._job_executors
    api,              \* the scheduler calls suspended at an await
    returned,         \* the last scheduler call that returned, and its value
    scheduler,        \* the life of the scheduler process and of initialize
    history,          \* per job: the calls that were accepted for it
    listed,           \* the list_jobs calls of a client and the pages they returned
    heap,             \* Python list objects: identity of a list -> its elements
    building          \* per concurrent response: its input, all_input and messages lists

response_vars ==
    <<responses_store, conversations, requests, req, call, gen, orchestrator, delivered,
      calls, safety_api>>

sanitizer_vars == <<runtime_error, sanitized, failed_error>>

list_vars == <<heap, building>>

scheduler_vars ==
    <<jobs, job_dicts, kvstore, tasks, semaphore, executors, api, returned, scheduler, history,
      listed>>

vars == <<responses_store, conversations, requests, req, call, gen, orchestrator,
          delivered, calls, safety_api, sanitizer_vars, scheduler_vars, list_vars>>

\* No response is being built and no list object exists.
ListsIdle ==
    /\ heap = <<>>
    /\ building = <<>>

NoChunk == [type |-> "none"]

NoReq ==
    [input |-> StrInput(""), instructions |-> "", previous_response_id |-> None,
     conversation |-> NoConversation, store |-> TRUE, stream |-> FALSE,
     shield_ids |-> <<>>, max_infer_iters |-> 1]

NoCall ==
    [pc |-> "idle", final_response |-> NoResponse, final_event_type |-> "none",
     failed_response |-> NoResponse, result |-> NoResponse, error |-> "none",
     error_message |-> <<>>]

NoGen ==
    [pc |-> "none", input |-> StrInput(""), all_input |-> StrInput(""),
     response_id |-> None, final_response |-> NoResponse,
     failed_response |-> NoResponse, stream_chunk |-> NoChunk]

NoOrchestrator ==
    [state |-> "none", iter |-> 0, sequence_number |-> 0, output |-> <<>>,
     queue |-> <<>>, turn |-> "none", tool_error |-> FALSE, incomplete |-> FALSE,
     final_messages |-> <<>>,
     tool_calls |-> 0, base |-> 0, started |-> 0, completed |-> 0, finished |-> <<>>]

\* ------------------------------------------------ runtime_error_sanitizer
\* A message is a sequence of tokens: a space, a quote, or a word (a run of
\* characters that holds neither). Words that follow each other form one run.
Quotes == {"'", "\""}

EndOfText == ""

IsWord(token) == token \notin (Quotes \cup {" ", EndOfText})

At(error_msg, i) == IF i \in 1..Len(error_msg) THEN error_msg[i] ELSE EndOfText

\* A variant that compares the words of the pattern with their case.
lower_case_sensitive(token) == token

\* str.lower(), and the case folding of re.IGNORECASE.
lower(token) ==
    CASE token \in {"model", "Model", "MODEL"} -> "model"
      [] token \in {"not", "Not", "NOT"} -> "not"
      [] token \in {"found", "Found", "FOUND"} -> "found"
      [] token = "Y" -> "y"
      [] OTHER -> token

lowered(error_msg) == [i \in 1..Len(error_msg) |-> lower(error_msg[i])]

\* [^'" ]+ : the index after the run of words that starts at i.
RECURSIVE name_end(_, _)
name_end(error_msg, i) ==
    IF IsWord(At(error_msg, i)) THEN name_end(error_msg, i + 1) ELSE i

NoMatch == [matched |-> FALSE, groupdict |-> [model |-> <<>>]]

\* model ['"]?(?P<model>[^'" ]+)['"]? not found, matched at position p.
MODEL_NOT_FOUND_REGEX_match(error_msg, p) ==
    LET q == IF At(error_msg, p + 2) \in Quotes THEN p + 3 ELSE p + 2
        r == name_end(error_msg, q)
        t == IF At(error_msg, r) \in Quotes THEN r + 1 ELSE r
    IN  IF /\ lower(At(error_msg, p)) = "model"
           /\ At(error_msg, p + 1) = " "
           /\ r > q
           /\ At(error_msg, t) = " "
           /\ lower(At(error_msg, t + 1)) = "not"
           /\ At(error_msg, t + 2) = " "
           /\ lower(At(error_msg, t + 3)) = "found"
        THEN [matched |-> TRUE, groupdict |-> [model |-> SubSeq(error_msg, q, r - 1)]]
        ELSE NoMatch

\* regex.search(error_msg): the leftmost match.
MODEL_NOT_FOUND_REGEX_search(error_msg) ==
    LET starts == {p \in 1..Len(error_msg) : MODEL_NOT_FOUND_REGEX_match(error_msg, p).matched}
    IN  IF starts = {} THEN NoMatch
        ELSE MODEL_NOT_FOUND_REGEX_match(error_msg,
                 CHOOSE p \in starts : \A other \in starts : p <= other)

RUNTIME_ERROR_RULES ==
    << [code |-> "MODEL_NOT_FOUND",
        default_message |-> <<"Requested model is unavailable.">>,
        substrings |-> <<>>,
        regex |-> "MODEL_NOT_FOUND_REGEX",
        template |-> <<"Requested model '", "{model}", "' is unavailable.">>] >>

\* template.format(**match.groupdict())
RECURSIVE format(_, _)
format(template, groupdict) ==
    IF template = <<>> THEN <<>>
    ELSE (IF Head(template) = "{model}" THEN groupdict.model ELSE <<Head(template)>>)
         \o format(Tail(template), groupdict)

\* pattern in lowered
contains(text, pattern) ==
    \E i \in 1..(Len(text) + 1) :
        /\ i + Len(pattern) - 1 <= Len(text)
        /\ SubSeq(text, i, i + Len(pattern) - 1) = pattern

\* RuntimeErrorRule.evaluate: the sanitized message, or <<>> for None (the
\* caller tests its truth value only).
evaluate(self, error_msg) ==
    LET match == IF self.regex = "MODEL_NOT_FOUND_REGEX"
                 THEN MODEL_NOT_FOUND_REGEX_search(error_msg) ELSE NoMatch
    IN  IF self.regex # "None" /\ match.matched
        THEN IF self.template # <<>> THEN format(self.template, match.groupdict)
             ELSE self.default_message
        ELSE IF /\ self.substrings # <<>>
                /\ \A i \in 1..Len(self.substrings) :
                       contains(lowered(error_msg), self.substrings[i])
        THEN self.default_message
        ELSE <<>>

SanitizedRuntimeError(code, message) == [code |-> code, message |-> message]

NoSanitizedRuntimeError == SanitizedRuntimeError("None", <<>>)

\* A variant that hands the raw message on when no rule matches.
RECURSIVE sanitize_runtime_error_echoing(_, _)
sanitize_runtime_error_echoing(message, rules) ==
    IF rules = <<>> THEN SanitizedRuntimeError("INTERNAL_ERROR", message)
    ELSE LET sanitized_message == evaluate(Head(rules), message)
         IN  IF sanitized_message # <<>>
             THEN SanitizedRuntimeError(Head(rules).code, sanitized_message)
             ELSE sanitize_runtime_error_echoing(message, Tail(rules))

RECURSIVE sanitize_runtime_error(_, _)
sanitize_runtime_error(message, rules) ==
    IF rules = <<>> THEN NoSanitizedRuntimeError
    ELSE LET sanitized_message == evaluate(Head(rules), message)
         IN  IF sanitized_message # <<>>
             THEN SanitizedRuntimeError(Head(rules).code, sanitized_message)
             ELSE sanitize_runtime_error(message, Tail(rules))

\* The error of a response whose inference failed: the sanitized code and
\* message, or the generic internal error.
InternalError == [code |-> "internal_error", message |-> <<"Internal server error.">>]

response_error(sanitized_error) ==
    IF sanitized_error = NoSanitizedRuntimeError THEN InternalError
    ELSE [code |-> sanitized_error.code, message |-> sanitized_error.message]

\* The RuntimeErrors of the model: a message built around the words of the
\* pattern, each part of it right or wrong.
NameTokens == {"x", "Y"}

RECURSIVE NamesOf(_)
NamesOf(n) ==
    IF n = 0 THEN {<<>>}
    ELSE NamesOf(n - 1) \cup {Append(s, token) : s \in NamesOf(n - 1), token \in NameTokens}

Names == NamesOf(MaxName) \cup {<<"x", " ", "Y">>}

Prefixes == {<<>>, <<"failed:", " ">>, <<"x">>, <<"model", " ">>}

Keywords == {"model", "Model", "MODEL", "modal"}

Gaps == {<<" ">>, <<>>, <<" ", " ">>}

OptionalQuotes == {<<>>, <<"'">>, <<"\"">>}

Tails ==
    { <<" ", "not", " ", "found">>, <<" ", "NOT", " ", "Found", ".">>,
      <<" ", "not", "found">>, <<" ", "not", " ", "here">>, <<>> }

RuntimeError(prefix, keyword, gap, open, model, close, tail) ==
    [keyword |-> keyword, gap |-> gap, open |-> open, model |-> model, close |-> close,
     tail |-> tail,
     message |-> prefix \o <<keyword>> \o gap \o open \o model \o close \o tail]

RuntimeErrors ==
    { RuntimeError(prefix, keyword, gap, open, model, close, tail) :
        prefix \in Prefixes, keyword \in Keywords, gap \in Gaps, open \in OptionalQuotes,
        model \in Names, close \in OptionalQuotes, tail \in Tails }

NoRuntimeError == RuntimeError(<<>>, "", <<>>, <<>>, <<>>, <<>>, <<>>)

NotSanitized == SanitizedRuntimeError("pending", <<>>)

SanitizerIdle ==
    /\ runtime_error = NoRuntimeError
    /\ sanitized = NotSanitized
    /\ failed_error = NoError


\* ----------------------------------------------------------- job scheduler
\* JobStatus
PENDING == "pending"
RUNNING == "running"
COMPLETED == "completed"
FAILED == "failed"
CANCELLED == "cancelled"

JobStatus == {PENDING, RUNNING, COMPLETED, FAILED, CANCELLED}

JobIds == 1..MaxJobs

\* The keys of the KVStore and of the job table: the ids of the jobs of a
\* process, or of the jobs a restarted process finds.
StoredJobIds == 1..MaxRecovered

\* The job types of the model: the executor of "ok" returns, the executor of
\* "bad" raises.
JobTypes == {"ok", "bad"}

\* The schedule_job calls of the model: job_type and job_data.
JobRequests == {[job_type |-> "ok", job_data |-> "p"], [job_type |-> "bad", job_data |-> "q"]}

\* datetime.now(UTC) of started_at and completed_at.
Now == 1

NoResult == [kind |-> "None", value |-> ""]

\* What the executor of job type "ok" returns for job_data.
executor_return(job_data) == [kind |-> "return", value |-> job_data]

\* The exceptions an executor raises: with a message, and without one (as
\* `raise RuntimeError()` or a failed `assert`).
ExecutorErrors == {[type |-> "RuntimeError", args |-> <<"executor error">>],
                   [type |-> "RuntimeError", args |-> <<>>]}

\* str(e) of an exception: its only argument, or the empty string without one.
str(e) == IF e.args = <<>> THEN "" ELSE e.args[1]

\* {"error_details": traceback.format_exc()}
error_details == [kind |-> "error_details", value |-> "traceback"]

NoJob ==
    [job_id |-> None, job_type |-> "", status |-> "", created_at |-> None,
     started_at |-> None, completed_at |-> None, progress |-> 0, job_data |-> "",
     error |-> "", result |-> NoResult]

\* schedule_job: the dictionary of a new job (progress 0 for 0.0, 1 for 1.0).
job_info(job_id, job_type, job_data, created_at) ==
    [job_id |-> job_id, job_type |-> job_type, status |-> PENDING,
     created_at |-> created_at, started_at |-> None, completed_at |-> None,
     progress |-> 0, job_data |-> job_data, error |-> "", result |-> NoResult]

\* The statements of _run_job and cancel_job that change the job dictionary.
job_running(job) == [job EXCEPT !.status = RUNNING, !.started_at = Now]

\* A variant of the completion that leaves progress as it was.
job_completed_without_progress(job, result) ==
    [job EXCEPT !.status = COMPLETED, !.completed_at = Now, !.result = result]

job_completed(job, result) ==
    [job EXCEPT !.status = COMPLETED, !.completed_at = Now, !.progress = 1,
                !.result = result]

job_cancelled(job) == [job EXCEPT !.status = CANCELLED, !.completed_at = Now]

\* A variant of the failure handler that records the job as completed.
job_failed_as_completed(job, e) ==
    [job EXCEPT !.status = COMPLETED, !.completed_at = Now, !.error = e,
                !.result = error_details]

job_failed(job, e) ==
    [job EXCEPT !.status = FAILED, !.completed_at = Now, !.error = e,
                !.result = error_details]

\* The asyncio task of _run_job: where it is suspended, whether a cancellation
\* waits for it, and the job as serialized by the save it is suspended in.
Task(pc, snapshot) == [pc |-> pc, must_cancel |-> FALSE, snapshot |-> snapshot]

NoTask == Task("none", NoJob)

\* asyncio.create_task(self._run_job(job_id))
create_task == Task("created", NoJob)

\* The tasks that are keys of self._tasks, and task.done().
in_tasks(task) == task.pc \notin {"none", "done"}

done(task) == task.pc \in {"done", "cancelled", "failed_to_start"}

\* task.cancel(): a task that has not started never runs; a suspended task
\* gets CancelledError when it is resumed.
cancel(task) ==
    IF task.pc = "created" THEN [task EXCEPT !.pc = "cancelled"]
    ELSE [task EXCEPT !.must_cancel = TRUE]

\* A variant of the semaphore that never makes a task wait.
locked_never(value) == FALSE

\* asyncio.Semaphore.locked()
locked(value) == value = 0

\* What is kept per job about the calls of this process, for the properties.
NoHistory ==
    [scheduled |-> FALSE, executor_registered |-> FALSE, cancelled |-> "no",
     deleted |-> FALSE, recovered |-> "no"]

NoReturn == [op |-> "none", job_id |-> None, value |-> "None"]

Return(op, job_id, value) == [op |-> op, job_id |-> job_id, value |-> value]

Frame(op, job_id, snapshot) == [op |-> op, job_id |-> job_id, snapshot |-> snapshot]

\* No list_jobs call has been made.
NoListing == [job_type |-> "", status |-> "", limit |-> 0, offset |-> 0, pages |-> <<>>]

NoScheduler == [state |-> "none", max_concurrent_jobs |-> 0, position |-> 0, created |-> 0]

SchedulerIdle ==
    /\ jobs = {}
    /\ job_dicts = [job_id \in StoredJobIds |-> NoJob]
    /\ kvstore = [job_id \in StoredJobIds |-> NoJob]
    /\ tasks = [job_id \in StoredJobIds |-> NoTask]
    /\ semaphore = 0
    /\ executors = {}
    /\ api = {}
    /\ returned = NoReturn
    /\ scheduler = NoScheduler
    /\ history = [job_id \in StoredJobIds |-> NoHistory]
    /\ listed = NoListing

ResponsesIdle ==
    /\ responses_store = <<>>
    /\ conversations = [k \in {1} |-> <<>>]
    /\ requests = 0
    /\ req = NoReq
    /\ call = NoCall
    /\ gen = NoGen
    /\ orchestrator = NoOrchestrator
    /\ delivered = <<>>
    /\ calls = <<>>
    /\ safety_api = <<>>

\* The requests of the model.
Inputs ==
    { StrInput("a"),
      ListInput(<<OpenAIResponseMessage("user", StrContent("b"), None)>>),
      ListInput(<<OpenAIResponseMessage("user", ListContent(<<InputText("a")>>), 7),
                  OpenAIResponseInputFunctionToolCallOutput(1, "b")>>) }
\* The inputs of the turns of a chain: free text, and a list of items.
ChainInputs ==
    { StrInput("a"),
      ListInput(<<OpenAIResponseMessage("user", ListContent(<<InputText("a")>>), 7),
                  OpenAIResponseInputFunctionToolCallOutput(1, "b")>>) }
Instructions == {"", "sys"}
ConversationChoices ==
    {NoConversation, ConversationId("conv_", 1), ConversationId("conv_", 2),
     ConversationId("bad", 1)}
ShieldChoices ==
    { <<>>,
      <<[kind |-> "str", id |-> "llama-guard"]>>,
      <<[kind |-> "str", id |-> "llama-guard"], [kind |-> "spec", id |-> "content-filter"]>>,
      <<[kind |-> "dict", id |-> "invalid"]>> }

Init ==
    /\ responses_store = <<>>
    /\ conversations = [k \in {1} |-> <<>>]
    /\ requests = 0
    /\ req = NoReq
    /\ call = NoCall
    /\ gen = NoGen
    /\ orchestrator = NoOrchestrator
    /\ delivered = <<>>
    /\ calls = <<>>
    /\ safety_api = <<>>
    /\ SanitizerIdle
    /\ ListsIdle
    /\ SchedulerIdle

Finished == call.pc \in {"idle", "returned", "raised", "stopped", "exhausted"}

\* f"msg_{uuid.uuid4()}" of _store_response and f"resp_{uuid.uuid4()}".
new_input_id(response_id) == 10 + response_id

\* -------------------------------------------------------------- actions
\* create_openai_response(...): validation, conversation context, stream_gen.
\* The arguments are drawn from the given sets.
create_openai_response_with(InputSet, InstrSet, PrevSet, ConvSet, ShieldSet, IterSet) ==
    /\ Finished
    /\ \E input \in InputSet, instructions \in InstrSet,
          previous_response_id \in PrevSet,
          conversation \in ConvSet, store \in BOOLEAN, stream \in BOOLEAN,
          shields \in ShieldSet, max_infer_iters \in IterSet :
        LET shield_ids == IF shields # <<>> THEN extract_shield_ids(shields) ELSE <<>>
            pre == request_preamble(input, previous_response_id, conversation, conversations)
        IN  /\ req' = [input |-> input, instructions |-> instructions,
                       previous_response_id |-> previous_response_id,
                       conversation |-> conversation, store |-> store, stream |-> stream,
                       shield_ids |-> shield_ids, max_infer_iters |-> max_infer_iters]
            /\ calls' = pre.calls
            /\ IF pre.error # "none"
               THEN /\ call' = [NoCall EXCEPT !.pc = "raised", !.error = pre.error]
                    /\ gen' = NoGen
               ELSE /\ call' = [NoCall EXCEPT !.pc = "iterating"]
                    /\ gen' = [NoGen EXCEPT !.pc = "start", !.input = pre.input]
    /\ requests' = requests + 1
    /\ orchestrator' = NoOrchestrator
    /\ delivered' = <<>>
    /\ safety_api' = <<>>
    /\ UNCHANGED <<responses_store, conversations>>
    /\ UNCHANGED <<sanitizer_vars, list_vars, scheduler_vars>>

\* One response, with every kind of argument.
create_openai_response ==
    /\ requests = 0
    /\ create_openai_response_with(Inputs \cup {StrInput("")}, Instructions, {None, 1},
                                   ConversationChoices, ShieldChoices, 1..MaxIters)

\* Responses created one after the other, each possibly continuing a stored one.
chained_create_openai_response ==
    /\ requests < MaxRequests
    /\ create_openai_response_with(ChainInputs, {""}, {LegacyResponseId} \cup (0..MaxRequests),
                                   {NoConversation}, {<<>>}, {1})

\* The first resumption of _create_streaming_response: input preprocessing and
\* the construction of the orchestrator.
GenStart ==
    /\ call.pc = "iterating"
    /\ gen.pc = "start"
    /\ LET p == process_input_with_previous_response(
                    gen.input, req.previous_response_id, responses_store)
       IN  /\ calls' = IF req.previous_response_id # None
                       THEN Append(calls, "responses_store.get_response_object") ELSE calls
           /\ IF p.raised
              THEN /\ gen' = [gen EXCEPT !.pc = "raised"]
                   /\ call' = [call EXCEPT !.pc = "raised", !.error = "NotFound"]
                   /\ UNCHANGED orchestrator
              ELSE /\ gen' = [gen EXCEPT !.pc = "pull", !.all_input = p.all_input,
                                         !.response_id = requests]
                   /\ orchestrator' =
                        [NoOrchestrator EXCEPT !.state = "created",
                            !.final_messages = prepend_instructions(p.messages, req.instructions)]
                   /\ UNCHANGED call
    /\ UNCHANGED <<responses_store, conversations, requests, req, delivered, safety_api>>
    /\ UNCHANGED <<sanitizer_vars, list_vars, scheduler_vars>>

\* The relay receives stream_chunk from the orchestrator and yields it.
Relay(stream_chunk) ==
    /\ gen' = [gen EXCEPT !.pc = "yielded", !.stream_chunk = stream_chunk,
                  !.final_response = relay_final_response(@, stream_chunk),
                  !.failed_response = relay_failed_response(@, stream_chunk)]
    /\ delivered' = relay_yield(delivered, stream_chunk)

\* The statements of _create_streaming_response after the yield, run when the
\* consumer asks for the next event.
Resume ==
    LET chunk == gen.stream_chunk
        st == should_store(chunk, req.store, gen.final_response, gen.failed_response)
        sy == should_sync(chunk, req.conversation, gen.final_response)
        items == sync_conversation_items(req.input, gen.final_response)
        raises == sy /\ sync_raises(req.input)
        adds == sy /\ ~raises /\ items # <<>>
    IN  /\ responses_store' =
            IF st THEN store_response_object(responses_store, gen.final_response,
                          store_input_items_data(gen.all_input, new_input_id(gen.response_id)),
                          orchestrator.final_messages)
            ELSE responses_store
        /\ conversations' =
            IF adds THEN [conversations EXCEPT ![req.conversation.key] = @ \o items]
            ELSE conversations
        /\ calls' = calls \o (IF st THEN <<"responses_store.store_response_object">> ELSE <<>>)
                          \o (IF adds THEN <<"conversations.add_items">> ELSE <<>>)
        /\ gen' = [gen EXCEPT !.pc = IF raises THEN "raised" ELSE "pull"]
        /\ raises => call' = [call EXCEPT !.pc = "raised", !.error = "NotImplementedError"]

\* The consumer takes the event it was given and asks for the next one.
ConsumerNext ==
    /\ call.pc = "iterating"
    /\ gen.pc = "yielded"
    /\ IF ~req.stream /\ consume_multiple_terminal(call, gen.stream_chunk)
       THEN /\ call' = [call EXCEPT !.pc = "raised",
                           !.error = "ValueError: multiple terminal responses"]
            /\ UNCHANGED <<responses_store, conversations, gen, calls>>
       ELSE /\ Resume
            /\ (~(should_sync(gen.stream_chunk, req.conversation, gen.final_response)
                    /\ sync_raises(req.input)))
                 => call' = IF req.stream THEN call ELSE consume_chunk(call, gen.stream_chunk)
    /\ UNCHANGED <<requests, req, orchestrator, delivered, safety_api>>
    /\ UNCHANGED <<sanitizer_vars, list_vars, scheduler_vars>>

\* A streaming consumer stops iterating.
ConsumerStop ==
    /\ call.pc = "iterating"
    /\ req.stream
    /\ gen.pc \in {"start", "yielded"}
    /\ call' = [call EXCEPT !.pc = "stopped"]
    /\ UNCHANGED <<responses_store, conversations, requests, req, gen, orchestrator,
                   delivered, calls, safety_api>>
    /\ UNCHANGED <<sanitizer_vars, list_vars, scheduler_vars>>

\* The stream of the orchestrator ends: the generator returns and the loop of
\* the consumer ends.
StreamEnd ==
    /\ gen' = [gen EXCEPT !.pc = "done"]
    /\ call' = IF req.stream THEN [call EXCEPT !.pc = "exhausted"] ELSE finish_call(call)
    /\ UNCHANGED <<responses_store, conversations, requests, req, orchestrator,
                   delivered, calls, safety_api>>
    /\ UNCHANGED <<sanitizer_vars, list_vars, scheduler_vars>>

\* ------------------------------------------- an arbitrary orchestrator stream
\* One response whose orchestrator stream is any sequence of at most MaxStream
\* events: the relay and the consumer as they treat every stream.
AnyEvents ==
    LET message(t) == <<OpenAIResponseMessage("assistant", ListContent(<<OutputText(t)>>), None)>>
    IN  { [type |-> "response.created", status |-> "in_progress", output |-> <<>>],
          [type |-> "response.in_progress", status |-> "in_progress", output |-> <<>>],
          [type |-> "response.completed", status |-> "completed", output |-> message("a")],
          [type |-> "response.completed", status |-> "completed", output |-> message("b")],
          [type |-> "response.incomplete", status |-> "incomplete", output |-> message("a")],
          [type |-> "response.failed", status |-> "failed", output |-> <<>>],
          [type |-> "response.failed", status |-> "failed", output |-> <<>>,
           error |-> [code |-> "server_error", message |-> <<"boom">>]] }

AnyEvent(e, response_id, n) ==
    LET response ==
            IF "error" \in DOMAIN e
            THEN [OpenAIResponseObject(response_id, e.status, e.output) EXCEPT !.error = e.error]
            ELSE OpenAIResponseObject(response_id, e.status, e.output)
    IN  IF e.type = "response.created" THEN OpenAIResponseObjectStreamResponseCreated(response)
        ELSE IF e.type = "response.completed"
        THEN OpenAIResponseObjectStreamResponseCompleted(response)
        ELSE IF e.type = "response.incomplete"
        THEN OpenAIResponseObjectStreamResponseIncomplete(response, n)
        ELSE IF e.type = "response.failed"
        THEN OpenAIResponseObjectStreamResponseFailed(response, n)
        ELSE StreamEvent(e.type, n, 0)

AnyRequest ==
    /\ requests = 0
    /\ create_openai_response_with({StrInput("a")}, {""}, {None},
                                   {NoConversation, ConversationId("conv_", 1)},
                                   {<<>>}, {1})

AnyEmit ==
    /\ call.pc = "iterating"
    /\ gen.pc = "pull"
    /\ Len(delivered) < MaxStream
    /\ \E e \in AnyEvents : Relay(AnyEvent(e, gen.response_id, Len(delivered) + 1))
    /\ UNCHANGED <<responses_store, conversations, requests, req, call, orchestrator, calls,
                   safety_api>>
    /\ UNCHANGED <<sanitizer_vars, list_vars, scheduler_vars>>

AnyEnd ==
    /\ call.pc = "iterating"
    /\ gen.pc = "pull"
    /\ StreamEnd

NextAny ==
    \/ AnyRequest
    \/ GenStart
    \/ ConsumerNext
    \/ ConsumerStop
    \/ AnyEmit
    \/ AnyEnd

SpecAny == Init /\ [][NextAny]_vars

\* ------------------------------------- StreamingResponseOrchestrator
\* create_response(): every action below runs the orchestrator up to its next
\* yield, and the relay hands the event on.
RefusalMessage ==
    OpenAIResponseMessage("assistant",
        ListContent(<<OpenAIResponseContentPartRefusal(ViolationMessage)>>), None)
AssistantMessage ==
    OpenAIResponseMessage("assistant", ListContent(<<OutputText("r")>>), None)

\* The events of one model turn after its first "item added" event, each with
\* the output index of the item it describes.
TextTurnEvents(deltas, output_index) ==
    [i \in 1..(deltas + 4) |->
        [type |-> IF i = 1 THEN "response.content_part.added"
                  ELSE IF i <= deltas + 1 THEN "response.output_text.delta"
                  ELSE IF i = deltas + 2 THEN "response.output_text.done"
                  ELSE IF i = deltas + 3 THEN "response.content_part.done"
                  ELSE "response.output_item.done",
         output_index |-> output_index]]

\* A variant that gives the item of every further tool call the output index of
\* the first call of the turn.
ToolTurnEvents_added_at_base(tool_calls, base) ==
    [i \in 1..(2 * tool_calls - 1) |->
        [type |-> IF i % 2 = 1 THEN "response.mcp_call.arguments.done"
                  ELSE "response.output_item.added",
         output_index |-> IF i % 2 = 1 THEN base + (i \div 2) ELSE base]]

\* A turn that declares tool_calls calls: the arguments of the first call, then
\* the item and the arguments of every further call, in declaration order.
ToolTurnEvents(tool_calls, base) ==
    [i \in 1..(2 * tool_calls - 1) |->
        [type |-> IF i % 2 = 1 THEN "response.mcp_call.arguments.done"
                  ELSE "response.output_item.added",
         output_index |-> base + (i \div 2)]]

EmitAt(type, output_index) ==
    Relay(StreamEvent(type, orchestrator.sequence_number + 1, output_index))

Emit(type) == EmitAt(type, Len(orchestrator.output))

Fail ==
    /\ Relay(OpenAIResponseObjectStreamResponseFailed(
                 [OpenAIResponseObject(gen.response_id, "failed", orchestrator.output)
                      EXCEPT !.error = InternalError],
                 orchestrator.sequence_number + 1))
    /\ orchestrator' = [orchestrator EXCEPT !.state = "failed",
                           !.sequence_number = @ + 1, !.queue = <<>>]

OrchUnchanged ==
    UNCHANGED <<responses_store, conversations, requests, req, call, sanitizer_vars, list_vars,
                scheduler_vars>>

\* What a tool call may come to: a result, an error of the tool, or an
\* argument payload that cannot be parsed.
ToolOutcomes == {"result", "error", "malformed_arguments"}

\* A variant that lets one more round follow the last one of the budget.
budget_left_one_more(iter, max_infer_iters) == iter <= max_infer_iters

\* The iteration budget: another inference round may follow.
budget_left(iter, max_infer_iters) == iter < max_infer_iters

\* A variant that never ends a response as incomplete.
exhausted_unresolved_never(last, more) == FALSE

\* The budget is exhausted with the tool calls of the last round just resolved
\* and no model turn left to use their results.
exhausted_unresolved(last, more) == last /\ ~more

\* A variant that ends the response when a tool call did not give a result.
after_tool_call_failing(outcome) ==
    IF outcome # "result" THEN "failed" ELSE "tool_finished"

\* The state after the completion event of a tool call.
after_tool_call(outcome) == "tool_finished"

\* A variant that completes the calls in the order they finished.
next_to_complete_first_finished(completed, finished) ==
    IF Len(finished) > completed THEN finished[completed + 1].call ELSE completed + 1

\* The call whose completion event is emitted next: the next declared one.
next_to_complete(completed, finished) == completed + 1

\* The outcome of a call that has finished.
outcome_of(finished, tool_call) ==
    LET i == CHOOSE i \in 1..Len(finished) : finished[i].call = tool_call
    IN  finished[i].outcome

\* A variant that goes on to inference whatever the input check found.
after_input_check_ignoring_violation(violation) == "awaiting_inference"

\* The state after the input-side check.
after_input_check(violation) ==
    IF violation # "none" THEN "refusing" ELSE "awaiting_inference"

\* A variant that keeps the output whatever the output check found.
final_output_ignoring_violation(violation, output) == output

\* The output of the completed response after the output-side check.
final_output(violation, output) ==
    IF violation # "none" THEN <<RefusalMessage>> ELSE output

\* Step 1: the input-side safety check, then response.created.
O_Start ==
    /\ call.pc = "iterating" /\ gen.pc = "pull"
    /\ orchestrator.state = "created"
    /\ \E flagged \in [ShieldModels -> BOOLEAN] :
        LET gate == apply_guardrails(combined_text(orchestrator.final_messages),
                                     req.shield_ids, "input", flagged)
        IN  /\ safety_api' = safety_api \o gate.moderations
            /\ calls' = calls \o [i \in 1..Len(gate.moderations) |-> "safety.run_moderation"]
            /\ orchestrator' = [orchestrator EXCEPT !.state = after_input_check(gate.violation)]
            /\ Relay(create_refusal_response_events(
                         OpenAIResponseContentPartRefusal(ViolationMessage), gen.response_id)[1])
    /\ OrchUnchanged

\* The refusal: response.completed with the refusal message only.
O_Refuse ==
    /\ call.pc = "iterating" /\ gen.pc = "pull"
    /\ orchestrator.state = "refusing"
    /\ Relay(create_refusal_response_events(
                 OpenAIResponseContentPartRefusal(ViolationMessage), gen.response_id)[2])
    /\ orchestrator' = [orchestrator EXCEPT !.state = "completed", !.output = <<RefusalMessage>>]
    /\ UNCHANGED <<calls, safety_api>>
    /\ OrchUnchanged

\* Step 2: an inference call; its first delta opens an output item, or it fails.
O_InferWith(ToolCounts) ==
    /\ call.pc = "iterating" /\ gen.pc = "pull"
    /\ orchestrator.state = "awaiting_inference"
    /\ calls' = Append(calls, "inference.openai_chat_completion")
    /\ \/ \E deltas \in 1..MaxDeltas :
            /\ Emit("response.output_item.added")
            /\ orchestrator' = [orchestrator EXCEPT !.state = "applying_deltas",
                   !.iter = @ + 1, !.sequence_number = @ + 1, !.turn = "text",
                   !.queue = TextTurnEvents(deltas, Len(orchestrator.output))]
       \/ \E tool_calls \in ToolCounts :
            /\ Emit("response.output_item.added")
            /\ orchestrator' = [orchestrator EXCEPT !.state = "applying_deltas",
                   !.iter = @ + 1, !.sequence_number = @ + 1, !.turn = "tool",
                   !.queue = ToolTurnEvents(tool_calls, Len(orchestrator.output)),
                   !.tool_calls = tool_calls, !.base = Len(orchestrator.output),
                   !.started = 0, !.completed = 0, !.finished = <<>>]
       \/ Fail
    /\ UNCHANGED safety_api
    /\ OrchUnchanged

O_Infer == O_InferWith({1})

\* A turn may declare several tool calls.
O_InferTools == O_InferWith(1..MaxToolCalls)

\* The next delta of the turn, or the failure of the backend in mid-stream.
O_Delta ==
    /\ call.pc = "iterating" /\ gen.pc = "pull"
    /\ orchestrator.state = "applying_deltas"
    /\ \/ /\ EmitAt(Head(orchestrator.queue).type, Head(orchestrator.queue).output_index)
          /\ LET last == Len(orchestrator.queue) = 1
                 text == orchestrator.turn = "text"
             IN  orchestrator' = [orchestrator EXCEPT
                     !.sequence_number = @ + 1,
                     !.queue = Tail(@),
                     !.state = IF ~last THEN @
                               ELSE IF text THEN "finalizing" ELSE "dispatching_tools",
                     !.output = IF last /\ text THEN Append(@, AssistantMessage) ELSE @,
                     !.final_messages =
                        IF last /\ text THEN Append(@, OpenAIMessageParam("assistant", <<"r">>))
                        ELSE IF last THEN Append(@, OpenAIMessageParam("assistant", <<"tool_call">>))
                        ELSE @]
       \/ Fail
    /\ UNCHANGED <<calls, safety_api>>
    /\ OrchUnchanged

\* Step 3: the declared calls are dispatched in declaration order, each with
\* its in_progress event; they run concurrently.
O_ToolStart ==
    /\ call.pc = "iterating" /\ gen.pc = "pull"
    /\ orchestrator.state = "dispatching_tools"
    /\ EmitAt("response.mcp_call.in_progress", orchestrator.base + orchestrator.started)
    /\ calls' = Append(calls, "tool_executor.execute_tool_call")
    /\ orchestrator' = [orchestrator EXCEPT
           !.sequence_number = @ + 1,
           !.started = @ + 1,
           !.state = IF orchestrator.started + 1 = orchestrator.tool_calls
                     THEN "tool_running" ELSE @]
    /\ UNCHANGED safety_api
    /\ OrchUnchanged

\* A call that runs comes to its outcome, while the orchestrator awaits the
\* tool backend: the calls finish in any order.
ToolReturn ==
    /\ call.pc = "iterating" /\ gen.pc = "pull"
    /\ orchestrator.state \in {"dispatching_tools", "tool_running"}
    /\ \E tool_call \in 1..orchestrator.started, outcome \in ToolOutcomes :
        /\ \A i \in 1..Len(orchestrator.finished) : orchestrator.finished[i].call # tool_call
        /\ orchestrator' = [orchestrator EXCEPT
               !.finished = Append(@, [call |-> tool_call, outcome |-> outcome])]
    /\ UNCHANGED <<gen, delivered, calls, safety_api>>
    /\ OrchUnchanged

\* The completion event of the next call in declaration order, once that call
\* has finished; its result is appended to the messages.
O_ToolFinish ==
    /\ call.pc = "iterating" /\ gen.pc = "pull"
    /\ orchestrator.state = "tool_running"
    /\ LET tool_call == next_to_complete(orchestrator.completed, orchestrator.finished)
       IN  /\ \E i \in 1..Len(orchestrator.finished) : orchestrator.finished[i].call = tool_call
           /\ LET outcome == outcome_of(orchestrator.finished, tool_call)
                  error == outcome # "result"
              IN  /\ EmitAt(IF error THEN "response.mcp_call.failed"
                            ELSE "response.mcp_call.completed",
                            orchestrator.base + tool_call - 1)
                  /\ orchestrator' = [orchestrator EXCEPT !.state = after_tool_call(outcome),
                         !.sequence_number = @ + 1, !.tool_error = error,
                         !.final_messages = Append(@, OpenAIMessageParam("tool", <<outcome>>))]
    /\ UNCHANGED <<calls, safety_api>>
    /\ OrchUnchanged

\* Step 4: the item of the call is done; then the next call, another round, or
\* the end of the budget.
O_ToolItemDone ==
    /\ call.pc = "iterating" /\ gen.pc = "pull"
    /\ orchestrator.state = "tool_finished"
    /\ LET tool_call == next_to_complete(orchestrator.completed, orchestrator.finished)
           last == orchestrator.completed + 1 = orchestrator.tool_calls
           more == budget_left(orchestrator.iter, req.max_infer_iters)
       IN  /\ EmitAt("response.output_item.done", orchestrator.base + tool_call - 1)
           /\ orchestrator' = [orchestrator EXCEPT
                  !.sequence_number = @ + 1,
                  !.output = Append(@, OpenAIResponseOutputMessageMCPCall(
                                           orchestrator.base + tool_call, orchestrator.tool_error)),
                  !.tool_error = FALSE,
                  !.completed = @ + 1,
                  !.state = IF ~last THEN "tool_running"
                            ELSE IF more THEN "awaiting_inference" ELSE "finalizing",
                  !.incomplete = exhausted_unresolved(last, more)]
    /\ UNCHANGED <<calls, safety_api>>
    /\ OrchUnchanged

\* Steps 5 and 6: the output-side safety check and the terminal event.
O_Final ==
    /\ call.pc = "iterating" /\ gen.pc = "pull"
    /\ orchestrator.state = "finalizing"
    /\ IF orchestrator.incomplete
       THEN /\ Relay(OpenAIResponseObjectStreamResponseIncomplete(
                         OpenAIResponseObject(gen.response_id, "incomplete", orchestrator.output),
                         orchestrator.sequence_number + 1))
            /\ orchestrator' = [orchestrator EXCEPT !.state = "incomplete",
                                   !.sequence_number = @ + 1]
            /\ UNCHANGED <<calls, safety_api>>
       ELSE \E flagged \in [ShieldModels -> BOOLEAN] :
            LET gate == apply_guardrails(output_text(orchestrator.output),
                                         req.shield_ids, "output", flagged)
                output == final_output(gate.violation, orchestrator.output)
            IN  /\ safety_api' = safety_api \o gate.moderations
                /\ calls' = calls \o [i \in 1..Len(gate.moderations) |-> "safety.run_moderation"]
                /\ Relay(OpenAIResponseObjectStreamResponseCompleted(
                             OpenAIResponseObject(gen.response_id, "completed", output)))
                /\ orchestrator' = [orchestrator EXCEPT !.state = "completed", !.output = output]
    /\ OrchUnchanged

\* After the terminal event the generator of the orchestrator returns.
O_End ==
    /\ call.pc = "iterating" /\ gen.pc = "pull"
    /\ orchestrator.state \in {"completed", "incomplete", "failed"}
    /\ StreamEnd

Next ==
    \/ create_openai_response
    \/ GenStart
    \/ ConsumerNext
    \/ ConsumerStop
    \/ O_Start
    \/ O_Refuse
    \/ O_Infer
    \/ O_Delta
    \/ O_ToolStart
    \/ ToolReturn
    \/ O_ToolFinish
    \/ O_ToolItemDone
    \/ O_Final
    \/ O_End

Spec == Init /\ [][Next]_vars

NextChain ==
    \/ chained_create_openai_response
    \/ GenStart
    \/ ConsumerNext
    \/ ConsumerStop
    \/ O_Start
    \/ O_Infer
    \/ O_Delta
    \/ O_ToolStart
    \/ ToolReturn
    \/ O_ToolFinish
    \/ O_ToolItemDone
    \/ O_Final
    \/ O_End

\* The store holds one response of an earlier version, stored without messages.
LegacyStore ==
    LegacyResponseId :>
        [response |-> OpenAIResponseObject(LegacyResponseId, "completed", <<AssistantMessage>>),
         input |-> <<OpenAIResponseMessage("user", ListContent(<<InputText("a")>>), 9)>>,
         messages |-> <<>>]

InitChain ==
    /\ responses_store = LegacyStore
    /\ conversations = [k \in {1} |-> <<>>]
    /\ requests = 0
    /\ req = NoReq
    /\ call = NoCall
    /\ gen = NoGen
    /\ orchestrator = NoOrchestrator
    /\ delivered = <<>>
    /\ calls = <<>>
    /\ safety_api = <<>>
    /\ SanitizerIdle
    /\ ListsIdle
    /\ SchedulerIdle

SpecChain == InitChain /\ [][NextChain]_vars

\* One response whose turns may declare several tool calls.
ToolsRequest ==
    /\ requests = 0
    /\ create_openai_response_with({StrInput("a")}, {""}, {None}, {NoConversation},
                                   {<<>>}, {1})

NextTools ==
    \/ ToolsRequest
    \/ GenStart
    \/ ConsumerNext
    \/ ConsumerStop
    \/ O_Start
    \/ O_InferTools
    \/ O_Delta
    \/ O_ToolStart
    \/ ToolReturn
    \/ O_ToolFinish
    \/ O_ToolItemDone
    \/ O_Final
    \/ O_End

SpecTools == Init /\ [][NextTools]_vars

\* The scheduling of one response: a coroutine that can run does run, and every
\* backend call returns.
SpecFair == Spec /\ WF_vars(Next)

\* ------------------------------------------------------------- properties
Terminals(events) == {i \in 1..Len(events) : events[i].type \in TerminalTypes}
Numbered(events) == {i \in 1..Len(events) : "sequence_number" \in DOMAIN events[i]}
CountCalls(name) == Cardinality({i \in 1..Len(calls) : calls[i] = name})
StoreCalls == CountCalls("responses_store.store_response_object")
ConsumerDone == call.pc \in {"returned", "raised", "stopped", "exhausted"}

\* C1: the relayed event stream of a response holds at most one terminal event,
\* nothing follows it, and a stream that has ended holds exactly one.
C1_ExactlyOneTerminalEvent ==
    /\ Cardinality(Terminals(delivered)) <= 1
    /\ \A i \in Terminals(delivered) : i = Len(delivered)
    /\ gen.pc = "done" => Cardinality(Terminals(delivered)) = 1

C1_Witness ==
    /\ gen.pc = "done"
    /\ Len(delivered) >= 3
    /\ delivered[Len(delivered)].type = "response.failed"

\* C2: with store enabled, a response whose response.completed or
\* response.incomplete event reached the consumer is stored, also when the
\* consumer stops iterating right after that event.
C2_StoredWhenConsumerStops ==
    ( /\ call.pc = "stopped"
      /\ req.store
      /\ delivered # <<>>
      /\ delivered[Len(delivered)].type \in StoredTypes )
    => gen.response_id \in DOMAIN responses_store

\* C3: for any event sequence, store_response_object is invoked at most once,
\* and exactly once when store is enabled and the response ended in
\* response.completed or response.incomplete.
C3_StoredExactlyOnce ==
    /\ StoreCalls <= 1
    /\ ( /\ ConsumerDone
         /\ req.store
         /\ delivered # <<>>
         /\ delivered[Len(delivered)].type \in StoredTypes )
       => StoreCalls = 1

\* C4 as stated: a response whose stream contains response.failed is never
\* stored, wherever in the stream that event is.
C4_FailedNeverStored ==
    (\E i \in 1..Len(delivered) : delivered[i].type = "response.failed")
    => StoreCalls = 0

\* C4 as amended: once a response.failed event has been relayed,
\* store_response_object is not invoked for that response any more.
C4_NoStoreAfterFailed ==
    [][ (\E i \in 1..Len(delivered) : delivered[i].type = "response.failed")
        => /\ CountCalls("responses_store.store_response_object")' <= StoreCalls
           /\ responses_store' = responses_store ]_vars

C4_Witness ==
    /\ gen.pc = "done"
    /\ req.store
    /\ Len(delivered) = 2
    /\ delivered[1].type = "response.failed"
    /\ delivered[2].type = "response.completed"
    /\ responses_store = <<>>

\* C5: in non-streaming mode a stream with more than one terminal event makes
\* create_openai_response raise; it never returns a response.
C5_MultipleTerminalsRaise ==
    (~req.stream /\ Cardinality(Terminals(delivered)) > 1)
    => /\ call.pc \in {"iterating", "raised"}
       /\ gen.pc = "done" => call.pc = "raised"

C5_Witness ==
    /\ ~req.stream
    /\ call.pc = "raised"
    /\ Len(delivered) = 2
    /\ delivered[1].type = "response.completed"
    /\ delivered[2].type = "response.incomplete"

\* C6: the sequence numbers the consumer observes are 1, 2, 3, ... in delivery
\* order: the k-th event that carries a sequence_number carries k.
C6_SequenceNumbersGapless ==
    \A i \in Numbered(delivered) :
        delivered[i].sequence_number = Cardinality({j \in Numbered(delivered) : j <= i})

C6_Witness ==
    /\ gen.pc = "done"
    /\ Cardinality(Numbered(delivered)) >= 6
    /\ \E i \in 1..Len(delivered) : delivered[i].type = "response.output_text.delta"

\* C7: every event of a response carries a type and a sequence_number.
C7_EveryEventNumbered ==
    \A i \in 1..Len(delivered) :
        /\ "type" \in DOMAIN delivered[i]
        /\ "sequence_number" \in DOMAIN delivered[i]

\* C8: a call with both previous_response_id and conversation raises the
\* validation error with no backend call made and no state changed.
C8_MutuallyExclusiveRejected ==
    [][ ( /\ requests' = requests + 1
          /\ req'.conversation # NoConversation
          /\ req'.previous_response_id # None )
        => /\ call'.pc = "raised"
           /\ call'.error = "ValueError: mutually exclusive parameters"
           /\ calls' = <<>>
           /\ gen' = NoGen
           /\ delivered' = <<>>
           /\ responses_store' = responses_store
           /\ conversations' = conversations ]_vars

C8_Witness ==
    /\ call.pc = "raised"
    /\ call.error = "ValueError: mutually exclusive parameters"
    /\ req.conversation = ConversationId("conv_", 1)
    /\ req.previous_response_id # None

\* C9: a request whose previous_response_id the store does not hold ends with
\* the not-found error of the lookup: no event, no inference call, no store.
C9_MissingPreviousNotFound ==
    ( /\ gen.pc \notin {"none", "start"}
      /\ req.previous_response_id # None
      /\ req.previous_response_id \notin DOMAIN responses_store )
    => /\ gen.pc = "raised"
       /\ call.pc = "raised"
       /\ call.error = "NotFound"
       /\ delivered = <<>>
       /\ calls = <<"responses_store.get_response_object">>
       /\ orchestrator = NoOrchestrator
       /\ requests \notin DOMAIN responses_store

C9_Witness ==
    /\ call.error = "NotFound"
    /\ responses_store # <<>>
    /\ req.previous_response_id \notin DOMAIN responses_store

\* C10: the input stored for a response that continues a stored response A is
\* A's stored input, then A's output, then the new input (a free-text input
\* being one user message).
NewInputItems(input) ==
    IF IsStr(input) THEN <<OpenAIResponseMessage("user", StrContent(input.text), None)>>
    ELSE input.items

C10_ChainedInput ==
    [][ \A b \in DOMAIN responses_store' \ DOMAIN responses_store :
            req.previous_response_id # None
            => /\ req.previous_response_id \in DOMAIN responses_store
               /\ responses_store'[b].input =
                     responses_store[req.previous_response_id].input
                     \o responses_store[req.previous_response_id].response.output
                     \o NewInputItems(req.input) ]_vars

C10_Witness ==
    /\ requests \in DOMAIN responses_store
    /\ req.previous_response_id \in DOMAIN responses_store
    /\ IsStr(req.input)
    /\ Len(responses_store[requests].input) >= 4

\* C11: the messages of a turn that continues a stored response are the stored
\* messages of that response, unchanged and in order, followed by the
\* conversion of the new input alone; when the response was stored without
\* messages, they are the conversion of its input, its output and the new input.
C11_ChainedMessages ==
    [][ ( /\ gen.pc = "start"
          /\ gen'.pc = "pull"
          /\ req.previous_response_id # None )
        => LET previous == responses_store[req.previous_response_id]
           IN  orchestrator'.final_messages =
                   prepend_instructions(
                       IF previous.messages # <<>>
                       THEN previous.messages
                            \o convert_response_input_to_chat_messages(req.input)
                       ELSE convert_response_input_to_chat_messages(
                                ListInput(previous.input \o previous.response.output
                                          \o NewInputItems(req.input))),
                       req.instructions) ]_vars

C11_Witness ==
    /\ gen.pc = "pull"
    /\ orchestrator.state = "created"
    /\ req.previous_response_id = 1
    /\ Len(responses_store[1].messages) = 3
    /\ Len(orchestrator.final_messages) = 5

\* The moderation calls of one side of the response, and what they found.
Moderations(side) == SelectSeq(safety_api, LAMBDA m : m.side = side)
Flagged(side) == \E i \in 1..Len(safety_api) : safety_api[i].side = side /\ safety_api[i].flagged

\* C12: when the input-side check flags the input, the event stream is
\* response.created then response.completed and nothing else, and the completed
\* response has status completed and one assistant message as its output, whose
\* content is one refusal part.
C12_InputRefusalStream ==
    Flagged("input")
    => /\ Len(delivered) \in {1, 2}
       /\ delivered[1].type = "response.created"
       /\ gen.pc = "done" => Len(delivered) = 2
       /\ Len(delivered) = 2
          => /\ delivered[2].type = "response.completed"
             /\ delivered[2].response.status = "completed"
             /\ Len(delivered[2].response.output) = 1
             /\ LET message == delivered[2].response.output[1]
                IN  /\ message.type = "message"
                    /\ message.role = "assistant"
                    /\ message.content.kind = "list"
                    /\ Len(message.content.parts) = 1
                    /\ message.content.parts[1].type = "refusal"

C12_Witness ==
    /\ Flagged("input")
    /\ gen.pc = "done"
    /\ Len(delivered) = 2
    /\ delivered[2].response.output[1].content.parts[1].refusal = ViolationMessage

\* C13: once the input-side check has reported a violation, the response makes
\* no inference call and executes no tool.
C13_NoInferenceAfterInputViolation ==
    Flagged("input")
    => /\ CountCalls("inference.openai_chat_completion") = 0
       /\ CountCalls("tool_executor.execute_tool_call") = 0

C13_Witness ==
    /\ Flagged("input")
    /\ call.pc \in {"returned", "exhausted"}
    /\ Len(req.shield_ids) = 2
    /\ req.max_infer_iters = MaxIters

\* C14: when the output-side check finds a violation, the terminal event is
\* response.completed, never response.failed, and the output of the completed
\* response is the refusal message alone.
C14_OutputViolationCompletes ==
    Flagged("output")
    => /\ \A i \in 1..Len(delivered) : delivered[i].type # "response.failed"
       /\ delivered[Len(delivered)].type = "response.completed"
       /\ delivered[Len(delivered)].response.status = "completed"
       /\ delivered[Len(delivered)].response.output = <<RefusalMessage>>

C14_Witness ==
    /\ Flagged("output")
    /\ gen.pc = "done"
    /\ CountCalls("tool_executor.execute_tool_call") = 1
    /\ CountCalls("inference.openai_chat_completion") = 2

\* C15: with no guardrail id, or with an empty text, the gate finds no violation
\* and calls no safety backend, and the step of the orchestrator is the step it
\* takes when no safety component is configured: response.created and then
\* inference on the input side, the output unchanged on the output side.
C15_EmptyGateIsNoGate ==
    [][ /\ req.shield_ids = <<>> => safety_api' = <<>>
        /\ \A i \in 1..Len(safety_api') : safety_api'[i].input # <<>>
        /\ ( /\ orchestrator.state = "created"
             /\ orchestrator' # orchestrator
             /\ \/ req.shield_ids = <<>>
                \/ combined_text(orchestrator.final_messages) = <<>> )
           => /\ safety_api' = safety_api
              /\ calls' = calls
              /\ orchestrator'.state = "awaiting_inference"
              /\ delivered' = Append(delivered, OpenAIResponseObjectStreamResponseCreated(
                                  OpenAIResponseObject(gen.response_id, "in_progress", <<>>)))
        /\ ( /\ orchestrator.state = "finalizing"
             /\ ~orchestrator.incomplete
             /\ orchestrator' # orchestrator
             /\ \/ req.shield_ids = <<>>
                \/ output_text(orchestrator.output) = <<>> )
           => /\ safety_api' = safety_api
              /\ calls' = calls
              /\ delivered' = Append(delivered, OpenAIResponseObjectStreamResponseCompleted(
                                  OpenAIResponseObject(gen.response_id, "completed",
                                                       orchestrator.output))) ]_vars

C15_Witness ==
    /\ req.shield_ids # <<>>
    /\ req.input = StrInput("")
    /\ req.instructions = ""
    /\ orchestrator.state = "awaiting_inference"
    /\ safety_api = <<>>
    /\ Len(delivered) = 1

\* C16: for a non-empty text and a non-empty list of guardrail ids, the gate
\* calls the moderation backend once for every guardrail, with the model of the
\* shield of that id, and it reports a violation exactly when the answer for at
\* least one of them is flagged.
C16_ViolationIffFlagged ==
    [][ safety_api' # safety_api /\ Len(safety_api') > Len(safety_api)
        => LET new == SubSeq(safety_api', Len(safety_api) + 1, Len(safety_api'))
               flagged == \E i \in 1..Len(new) : new[i].flagged
               refused ==
                   IF new[1].side = "input" THEN orchestrator'.state = "refusing"
                   ELSE delivered'[Len(delivered')].response.output = <<RefusalMessage>>
           IN  /\ Len(new) = Len(req.shield_ids)
               /\ \A i \in 1..Len(new) :
                     /\ new[i].model = Shields[req.shield_ids[i]]
                     /\ new[i].input # <<>>
               /\ refused <=> flagged ]_vars

C16_Witness ==
    /\ Len(safety_api) = 2
    /\ safety_api[1].model = "llama-guard-model" /\ ~safety_api[1].flagged
    /\ safety_api[2].model = "content-filter-model" /\ safety_api[2].flagged
    /\ orchestrator.state = "refusing"

CountEvents(type) == Cardinality({i \in 1..Len(delivered) : delivered[i].type = type})
InferenceCalls == CountCalls("inference.openai_chat_completion")
LastEvent == delivered[Len(delivered)]
OrchestratorEnded == orchestrator.state \in {"completed", "incomplete", "failed"}

\* C17: the orchestrator makes at most max_infer_iters inference calls, and a
\* response whose consumer keeps asking for events reaches a terminal event:
\* its event sequence is finite.
C17_FiniteStream ==
    /\ [](InferenceCalls <= req.max_infer_iters)
    /\ [](OrchestratorEnded => delivered # <<>> /\ LastEvent.type \in TerminalTypes)
    /\ (orchestrator.state = "created")
           ~> (OrchestratorEnded \/ call.pc \in {"stopped", "raised"})

C17_Witness ==
    /\ gen.pc = "done"
    /\ req.max_infer_iters = MaxIters
    /\ InferenceCalls = MaxIters
    /\ CountCalls("tool_executor.execute_tool_call") = MaxIters
    /\ LastEvent.type = "response.incomplete"

\* C18: a response whose every round, up to max_infer_iters, ends in a dispatch
\* of tool calls ends with response.incomplete after max_infer_iters inference
\* calls, one for max_infer_iters = 1; and response.incomplete is the end of
\* such a response only.
C18_BudgetExhaustedIncomplete ==
    (delivered # <<>> /\ LastEvent.type \in TerminalTypes)
    => /\ CountEvents("response.mcp_call.in_progress") = req.max_infer_iters
          => /\ LastEvent.type = "response.incomplete"
             /\ LastEvent.response.status = "incomplete"
             /\ InferenceCalls = req.max_infer_iters
       /\ LastEvent.type = "response.incomplete"
          => CountEvents("response.mcp_call.in_progress") = req.max_infer_iters

C18_Witness ==
    /\ req.max_infer_iters = 1
    /\ call.pc = "returned"
    /\ call.result.status = "incomplete"
    /\ InferenceCalls = 1
    /\ CountEvents("response.mcp_call.in_progress") = 1

\* C19: a tool call that fails, by an error of the tool or by an argument
\* payload that cannot be parsed, is recorded as the error of the output item
\* of that call; the events and the output items before it stay as they are,
\* and response.failed comes from an inference round only.
C19_ToolErrorIsScoped ==
    [][ requests' = requests
        => /\ ( /\ Len(orchestrator'.finished) = Len(orchestrator.finished) + 1
                /\ orchestrator'.finished[Len(orchestrator'.finished)].outcome # "result" )
              => /\ delivered' = delivered
                 /\ orchestrator'.output = orchestrator.output
                 /\ orchestrator'.state = orchestrator.state
           /\ ( /\ Len(delivered') = Len(delivered) + 1
                /\ delivered'[Len(delivered')].type = "response.mcp_call.failed" )
              => /\ SubSeq(delivered', 1, Len(delivered)) = delivered
                 /\ orchestrator'.output = orchestrator.output
                 /\ orchestrator'.state = "tool_finished"
                 /\ orchestrator'.tool_error
           /\ ( orchestrator.state = "tool_finished" /\ orchestrator' # orchestrator )
              => /\ Len(orchestrator'.output) = Len(orchestrator.output) + 1
                 /\ SubSeq(orchestrator'.output, 1, Len(orchestrator.output)) = orchestrator.output
                 /\ orchestrator'.output[Len(orchestrator'.output)].type = "mcp_call"
                 /\ orchestrator'.output[Len(orchestrator'.output)].error = orchestrator.tool_error
                 /\ orchestrator'.state # "failed"
           /\ ( /\ Len(delivered') = Len(delivered) + 1
                /\ delivered'[Len(delivered')].type = "response.failed" )
              => orchestrator.state \in {"awaiting_inference", "applying_deltas"} ]_vars

C19_Witness ==
    /\ call.pc = "returned"
    /\ call.result.status = "completed"
    /\ Len(call.result.output) = 2
    /\ call.result.output[1].type = "mcp_call" /\ call.result.output[1].error
    /\ call.result.output[2] = AssistantMessage
    /\ orchestrator.finished = <<[call |-> 1, outcome |-> "malformed_arguments"]>>
    /\ CountEvents("response.mcp_call.failed") = 1

\* C20: the completion events of the tool calls of one turn come in the order
\* the model declared the calls, whatever the order the calls finished in: the
\* k-th completion event is the one of the k-th declared call.
Completions ==
    {i \in 1..Len(delivered) :
        delivered[i].type \in {"response.mcp_call.completed", "response.mcp_call.failed"}}

C20_CompletionsInDeclarationOrder ==
    \A i \in Completions :
        delivered[i].output_index
            = orchestrator.base + Cardinality({j \in Completions : j <= i}) - 1

C20_Witness ==
    /\ orchestrator.tool_calls = 2
    /\ orchestrator.completed = 2
    /\ orchestrator.finished[1].call = 2
    /\ orchestrator.finished[2].call = 1
    /\ Cardinality(Completions) = 2

\* The 'done' events of output items and content parts, and the 'added' event
\* type that opens what each of them closes.
DoneEvents ==
    {i \in 1..Len(delivered) :
        delivered[i].type \in {"response.output_item.done", "response.content_part.done"}}

added_type(done_type) ==
    IF done_type = "response.output_item.done" THEN "response.output_item.added"
    ELSE "response.content_part.added"

\* C21: in every event stream, each 'done' event of an output item or of a
\* content part is preceded by an 'added' event of the same kind with the same
\* identity (the output index of the item); no 'done' event comes without it.
C21_DoneFollowsAdded ==
    \A i \in DoneEvents :
        \E j \in 1..(i - 1) :
            /\ delivered[j].type = added_type(delivered[i].type)
            /\ delivered[j].output_index = delivered[i].output_index

C21_Witness ==
    /\ orchestrator.tool_calls = 2
    /\ \E i \in DoneEvents :
        /\ delivered[i].type = "response.output_item.done"
        /\ delivered[i].output_index = orchestrator.base + 1

InitSanitizer ==
    /\ ResponsesIdle
    /\ SchedulerIdle
    /\ ListsIdle
    /\ runtime_error \in RuntimeErrors
    /\ sanitized = NotSanitized
    /\ failed_error = NoError

sanitize ==
    /\ sanitized = NotSanitized
    /\ sanitized' = sanitize_runtime_error(runtime_error.message, RUNTIME_ERROR_RULES)
    /\ UNCHANGED <<runtime_error, failed_error, response_vars, scheduler_vars, list_vars>>

fail_response ==
    /\ sanitized # NotSanitized
    /\ failed_error = NoError
    /\ failed_error' = response_error(sanitized)
    /\ UNCHANGED <<runtime_error, sanitized, response_vars, scheduler_vars, list_vars>>

NextSanitizer ==
    \/ sanitize
    \/ fail_response

SpecSanitizer == InitSanitizer /\ [][NextSanitizer]_vars

\* The message holds "model <name> not found" in any case, the name a run of
\* words, bare or between two quotes of one kind.
ModelNotFound(e) ==
    /\ e.keyword \in {"model", "Model", "MODEL"}
    /\ e.gap = <<" ">>
    /\ e.model # <<>>
    /\ \A i \in 1..Len(e.model) : e.model[i] \in NameTokens
    /\ e.open = e.close
    /\ e.tail \in {<<" ", "not", " ", "found">>, <<" ", "NOT", " ", "Found", ".">>}

Unavailable(model) == <<"Requested model '">> \o model \o <<"' is unavailable.">>

\* C23: for every RuntimeError whose message holds, in any case, "model <name>
\* not found" with the name optionally quoted, sanitize_runtime_error returns
\* code MODEL_NOT_FOUND and the message "Requested model '<name>' is
\* unavailable." with that name, and the response whose inference failed this
\* way carries that message.
C23_ModelNotFoundIsSanitized ==
    (ModelNotFound(runtime_error) /\ sanitized # NotSanitized)
    => /\ sanitized = SanitizedRuntimeError("MODEL_NOT_FOUND", Unavailable(runtime_error.model))
       /\ failed_error # NoError => failed_error.message = Unavailable(runtime_error.model)

C23_Witness ==
    /\ ModelNotFound(runtime_error)
    /\ runtime_error.keyword = "Model"
    /\ runtime_error.open = <<"'">>
    /\ runtime_error.model = <<"x", "Y">>
    /\ Len(runtime_error.message) > 10
    /\ failed_error.message = Unavailable(<<"x", "Y">>)

\* Some rule of RUNTIME_ERROR_RULES matches the message.
rule_matches(self, error_msg) ==
    \/ self.regex = "MODEL_NOT_FOUND_REGEX" /\ MODEL_NOT_FOUND_REGEX_search(error_msg).matched
    \/ /\ self.substrings # <<>>
       /\ \A i \in 1..Len(self.substrings) : contains(lowered(error_msg), self.substrings[i])

Unmapped(e) ==
    \A i \in 1..Len(RUNTIME_ERROR_RULES) : ~rule_matches(RUNTIME_ERROR_RULES[i], e.message)

\* C24: for every RuntimeError whose message matches no sanitization rule,
\* sanitize_runtime_error returns None, the response fails with the generic
\* internal error, and no part of the raw message is handed on.
C24_UnmappedIsNone ==
    (Unmapped(runtime_error) /\ sanitized # NotSanitized)
    => /\ sanitized = NoSanitizedRuntimeError
       /\ failed_error # NoError =>
            /\ failed_error = InternalError
            /\ \A i \in 1..Len(runtime_error.message) :
                 \A j \in 1..Len(failed_error.message) :
                    failed_error.message[j] # runtime_error.message[i]

C24_Witness ==
    /\ Unmapped(runtime_error)
    /\ runtime_error.keyword = "model"
    /\ runtime_error.model = <<"x", " ", "Y">>
    /\ runtime_error.tail = <<" ", "not", " ", "found">>
    /\ sanitized = NoSanitizedRuntimeError
    /\ failed_error = InternalError

\* ------------------------------------------------ InlineSchedulerImpl
\* Every action runs one coroutine from where it is suspended up to its next
\* await; the event loop runs one coroutine at a time.

\* A variant of the recovery loop that restarts the PENDING jobs only.
RECURSIVE resume_incomplete_jobs_pending_only(_, _, _, _)
resume_incomplete_jobs_pending_only(i, keys, dicts, created) ==
    IF i > MaxRecovered THEN [job_dicts |-> dicts, tasks |-> created, position |-> 0]
    ELSE IF i \notin keys \/ dicts[i].status # PENDING
    THEN resume_incomplete_jobs_pending_only(i + 1, keys, dicts, created)
    ELSE resume_incomplete_jobs_pending_only(i + 1, keys, dicts,
                                             [created EXCEPT ![i] = create_task])

\* A variant of the recovery loop that restarts the RUNNING jobs as they are,
\* without the reset to PENDING.
RECURSIVE resume_incomplete_jobs_without_reset(_, _, _, _)
resume_incomplete_jobs_without_reset(i, keys, dicts, created) ==
    IF i > MaxRecovered THEN [job_dicts |-> dicts, tasks |-> created, position |-> 0]
    ELSE IF i \notin keys \/ dicts[i].status \notin {PENDING, RUNNING}
    THEN resume_incomplete_jobs_without_reset(i + 1, keys, dicts, created)
    ELSE resume_incomplete_jobs_without_reset(i + 1, keys, dicts,
                                              [created EXCEPT ![i] = create_task])

\* _resume_incomplete_jobs: the loop over self._jobs from job i up to its next
\* await (position, the job whose save is awaited) or to its end (position 0).
RECURSIVE resume_incomplete_jobs(_, _, _, _)
resume_incomplete_jobs(i, keys, dicts, created) ==
    IF i > MaxRecovered THEN [job_dicts |-> dicts, tasks |-> created, position |-> 0]
    ELSE IF i \notin keys \/ dicts[i].status \notin {PENDING, RUNNING}
    THEN resume_incomplete_jobs(i + 1, keys, dicts, created)
    ELSE IF dicts[i].status = RUNNING
    THEN [job_dicts |-> [dicts EXCEPT ![i].status = PENDING, ![i].started_at = None],
          tasks |-> created, position |-> i]
    ELSE resume_incomplete_jobs(i + 1, keys, dicts, [created EXCEPT ![i] = create_task])

\* initialize: the semaphore, the jobs loaded from the KVStore, and the
\* recovery loop up to its first await.
initialize ==
    /\ scheduler.state = "new"
    /\ LET loaded == {job_id \in StoredJobIds : kvstore[job_id] # NoJob}
           loop == resume_incomplete_jobs(1, loaded, kvstore,
                                          [job_id \in StoredJobIds |-> NoTask])
       IN  /\ semaphore' = scheduler.max_concurrent_jobs
           /\ jobs' = loaded
           /\ job_dicts' = loop.job_dicts
           /\ tasks' = loop.tasks
           /\ scheduler' = [scheduler EXCEPT
                  !.state = IF loop.position = 0 THEN "ready" ELSE "resuming",
                  !.position = loop.position]
           /\ history' = [job_id \in StoredJobIds |->
                  [NoHistory EXCEPT !.recovered =
                      IF job_id \in loaded THEN kvstore[job_id].status ELSE "no"]]
    /\ UNCHANGED <<kvstore, executors, api, returned, response_vars, sanitizer_vars,
                   list_vars, listed>>

\* The save of the job reset to PENDING returns: its task is created and the
\* recovery loop goes on.
resume_saved ==
    /\ scheduler.state = "resuming"
    /\ LET i == scheduler.position
           loop == resume_incomplete_jobs(i + 1, jobs, job_dicts,
                                          [tasks EXCEPT ![i] = create_task])
       IN  /\ kvstore' = [kvstore EXCEPT ![i] = job_dicts[i]]
           /\ job_dicts' = loop.job_dicts
           /\ tasks' = loop.tasks
           /\ scheduler' = [scheduler EXCEPT
                  !.state = IF loop.position = 0 THEN "ready" ELSE "resuming",
                  !.position = loop.position]
    /\ UNCHANGED <<jobs, semaphore, executors, api, returned, history, response_vars,
                   sanitizer_vars, list_vars, listed>>

\* register_job_executor(job_type, executor), by the caller that was handed
\* the scheduler.
register_job_executor ==
    /\ scheduler.state = "ready"
    /\ \E job_type \in JobTypes :
        /\ job_type \notin executors
        /\ executors' = executors \cup {job_type}
    /\ UNCHANGED <<jobs, job_dicts, kvstore, tasks, semaphore, api, returned, scheduler,
                   history, response_vars, sanitizer_vars, list_vars, listed>>

\* schedule_job up to the await of its save.
schedule_job ==
    /\ scheduler.state = "ready"
    /\ scheduler.created < MaxJobs
    /\ \E request \in JobRequests :
        LET job_id == scheduler.created + 1
            job_type == request.job_type
            new_job == job_info(job_id, job_type, request.job_data, job_id)
        IN  /\ job_dicts' = [job_dicts EXCEPT ![job_id] = new_job]
            /\ jobs' = jobs \cup {job_id}
            /\ api' = api \cup {Frame("schedule_job", job_id, new_job)}
            /\ history' = [history EXCEPT
                   ![job_id].executor_registered = job_type \in executors]
    /\ scheduler' = [scheduler EXCEPT !.created = @ + 1]
    /\ UNCHANGED <<kvstore, tasks, semaphore, executors, returned, response_vars,
                   sanitizer_vars, list_vars, listed>>

\* The save of schedule_job returns: the task is created and the id returned.
schedule_job_saved ==
    /\ \E frame \in api :
        /\ frame.op = "schedule_job"
        /\ kvstore' = [kvstore EXCEPT ![frame.job_id] = frame.snapshot]
        /\ tasks' = [tasks EXCEPT ![frame.job_id] = create_task]
        /\ api' = api \ {frame}
        /\ returned' = Return("schedule_job", frame.job_id, "job_id")
        /\ history' = [history EXCEPT ![frame.job_id].scheduled = TRUE]
    /\ UNCHANGED <<jobs, job_dicts, semaphore, executors, scheduler, response_vars,
                   sanitizer_vars, list_vars, listed>>

\* A variant of the test of cancel_job that refuses unknown jobs only.
cancel_job_refused_unknown_only(keys, dicts, job_id) == job_id \notin keys

\* cancel_job: the tests that make it return False.
cancel_job_refused(keys, dicts, job_id) ==
    \/ job_id \notin keys
    \/ dicts[job_id].status \in {COMPLETED, FAILED, CANCELLED}

\* cancel_job(job_id) up to the await of its save.
cancel_job_call(job_id) ==
    IF cancel_job_refused(jobs, job_dicts, job_id)
    THEN /\ returned' = Return("cancel_job", job_id, "False")
         /\ UNCHANGED <<job_dicts, tasks, api, history>>
    ELSE LET job == job_cancelled(job_dicts[job_id])
         IN  /\ tasks' = [tasks EXCEPT ![job_id] =
                    IF in_tasks(@) /\ ~done(@) THEN cancel(@) ELSE @]
             /\ job_dicts' = [job_dicts EXCEPT ![job_id] = job]
             /\ api' = api \cup {Frame("cancel_job", job_id, job)}
             /\ history' = [history EXCEPT ![job_id].cancelled =
                    IF history[job_id].scheduled \/ history[job_id].recovered # "no"
                    THEN "yes" ELSE "before schedule_job returned"]
             /\ UNCHANGED returned

cancel_job ==
    /\ scheduler.state = "ready"
    /\ \E job_id \in JobIds : cancel_job_call(job_id)
    /\ UNCHANGED <<jobs, kvstore, semaphore, executors, scheduler, response_vars,
                   sanitizer_vars, list_vars, listed>>

\* The save of cancel_job returns, and cancel_job returns True.
cancel_job_saved ==
    /\ \E frame \in api :
        /\ frame.op = "cancel_job"
        /\ kvstore' = [kvstore EXCEPT ![frame.job_id] = frame.snapshot]
        /\ api' = api \ {frame}
        /\ returned' = Return("cancel_job", frame.job_id, "True")
    /\ UNCHANGED <<jobs, job_dicts, tasks, semaphore, executors, scheduler, history,
                   response_vars, sanitizer_vars, list_vars, listed>>

\* A variant of the test of delete_job that lets a PENDING job be deleted.
delete_job_refused_running_only(keys, dicts, job_id) ==
    \/ job_id \notin keys
    \/ dicts[job_id].status = RUNNING

\* delete_job: the tests that make it return False.
delete_job_refused(keys, dicts, job_id) ==
    \/ job_id \notin keys
    \/ dicts[job_id].status \in {PENDING, RUNNING}

\* delete_job(job_id) up to the await of the delete in the KVStore.
delete_job_call(job_id) ==
    IF delete_job_refused(jobs, job_dicts, job_id)
    THEN /\ returned' = Return("delete_job", job_id, "False")
         /\ UNCHANGED <<jobs, api, history>>
    ELSE /\ jobs' = jobs \ {job_id}
         /\ api' = api \cup {Frame("delete_job", job_id, NoJob)}
         /\ history' = [history EXCEPT ![job_id].deleted = TRUE]
         /\ UNCHANGED returned

delete_job ==
    /\ scheduler.state = "ready"
    /\ \E job_id \in JobIds : delete_job_call(job_id)
    /\ UNCHANGED <<job_dicts, kvstore, tasks, semaphore, executors, scheduler,
                   response_vars, sanitizer_vars, list_vars, listed>>

\* The delete in the KVStore returns, and delete_job returns True.
delete_job_deleted ==
    /\ \E frame \in api :
        /\ frame.op = "delete_job"
        /\ kvstore' = [kvstore EXCEPT ![frame.job_id] = NoJob]
        /\ api' = api \ {frame}
        /\ returned' = Return("delete_job", frame.job_id, "True")
    /\ UNCHANGED <<jobs, job_dicts, tasks, semaphore, executors, scheduler, history,
                   response_vars, sanitizer_vars, list_vars, listed>>

\* get_job_info: a copy of the job without job_data, or the error.
get_job_info(keys, dicts, job_id) ==
    IF job_id \notin keys THEN [error |-> "ValueError: Job not found", job |-> NoJob]
    ELSE [error |-> "none", job |-> [dicts[job_id] EXCEPT !.job_data = ""]]

TaskUnchanged ==
    UNCHANGED <<jobs, executors, api, returned, scheduler, history, response_vars,
                sanitizer_vars, list_vars, listed>>

\* async with self._semaphore, then the statements up to the first save.
enter_semaphore(job_id) ==
    IF locked(semaphore)
    THEN /\ tasks' = [tasks EXCEPT ![job_id].pc = "acquire"]
         /\ UNCHANGED <<semaphore, job_dicts>>
    ELSE LET job == job_running(job_dicts[job_id])
         IN  /\ semaphore' = semaphore - 1
             /\ job_dicts' = [job_dicts EXCEPT ![job_id] = job]
             /\ tasks' = [tasks EXCEPT ![job_id] = Task("save_running", job)]

\* The task of a job runs for the first time: the dictionary of the job is
\* looked up, then the semaphore is taken or waited for.
run_job_start ==
    /\ \E job_id \in StoredJobIds :
        /\ tasks[job_id].pc = "created"
        /\ IF job_id \notin jobs
           THEN /\ tasks' = [tasks EXCEPT ![job_id].pc = "failed_to_start"]
                /\ UNCHANGED <<semaphore, job_dicts>>
           ELSE enter_semaphore(job_id)
    /\ UNCHANGED kvstore
    /\ TaskUnchanged

\* A task that waited for the semaphore is given a slot.
run_job_acquired ==
    /\ \E job_id \in StoredJobIds :
        /\ tasks[job_id].pc = "acquire"
        /\ ~tasks[job_id].must_cancel
        /\ ~locked(semaphore)
        /\ enter_semaphore(job_id)
    /\ UNCHANGED kvstore
    /\ TaskUnchanged

\* The save of status RUNNING returns; _execute_job looks the executor up and
\* awaits it, or raises for a job type without executor.
run_job_execute ==
    /\ \E job_id \in StoredJobIds :
        /\ tasks[job_id].pc = "save_running"
        /\ ~tasks[job_id].must_cancel
        /\ kvstore' = [kvstore EXCEPT ![job_id] = tasks[job_id].snapshot]
        /\ IF job_dicts[job_id].job_type \in executors
           THEN /\ tasks' = [tasks EXCEPT ![job_id] = Task("executing", NoJob)]
                /\ UNCHANGED <<semaphore, job_dicts>>
           ELSE LET job == job_failed(job_dicts[job_id], "No executor registered for job type")
                IN  /\ semaphore' = semaphore + 1
                    /\ job_dicts' = [job_dicts EXCEPT ![job_id] = job]
                    /\ tasks' = [tasks EXCEPT ![job_id] = Task("save_failed", job)]
    /\ TaskUnchanged

\* The executor returns its result.
executor_returns ==
    /\ \E job_id \in StoredJobIds :
        /\ tasks[job_id].pc = "executing"
        /\ ~tasks[job_id].must_cancel
        /\ job_dicts[job_id].job_type = "ok"
        /\ LET job == job_completed(job_dicts[job_id],
                                    executor_return(job_dicts[job_id].job_data))
           IN  /\ job_dicts' = [job_dicts EXCEPT ![job_id] = job]
               /\ tasks' = [tasks EXCEPT ![job_id] = Task("save_completed", job)]
    /\ UNCHANGED <<kvstore, semaphore>>
    /\ TaskUnchanged

\* The executor raises.
executor_raises ==
    /\ \E job_id \in StoredJobIds :
        /\ tasks[job_id].pc = "executing"
        /\ ~tasks[job_id].must_cancel
        /\ job_dicts[job_id].job_type = "bad"
        /\ \E e \in ExecutorErrors :
            LET job == job_failed(job_dicts[job_id], str(e))
            IN  /\ semaphore' = semaphore + 1
                /\ job_dicts' = [job_dicts EXCEPT ![job_id] = job]
                /\ tasks' = [tasks EXCEPT ![job_id] = Task("save_failed", job)]
    /\ UNCHANGED kvstore
    /\ TaskUnchanged

\* The save of status COMPLETED returns: the slot is released and the task
\* leaves self._tasks.
run_job_completed ==
    /\ \E job_id \in StoredJobIds :
        /\ tasks[job_id].pc = "save_completed"
        /\ kvstore' = [kvstore EXCEPT ![job_id] = tasks[job_id].snapshot]
        /\ semaphore' = semaphore + 1
        /\ tasks' = [tasks EXCEPT ![job_id] = Task("done", NoJob)]
    /\ UNCHANGED job_dicts
    /\ TaskUnchanged

\* The save of status FAILED returns.
run_job_failed ==
    /\ \E job_id \in StoredJobIds :
        /\ tasks[job_id].pc = "save_failed"
        /\ kvstore' = [kvstore EXCEPT ![job_id] = tasks[job_id].snapshot]
        /\ tasks' = [tasks EXCEPT ![job_id] = Task("done", NoJob)]
    /\ UNCHANGED <<semaphore, job_dicts>>
    /\ TaskUnchanged

\* CancelledError reaches the task where it is suspended: the slot it holds is
\* released, and the save it was suspended in has been written or not.
run_job_cancelled ==
    /\ \E job_id \in StoredJobIds :
        /\ tasks[job_id].must_cancel
        /\ tasks[job_id].pc \in {"acquire", "save_running", "executing"}
        /\ semaphore' = IF tasks[job_id].pc = "acquire" THEN semaphore ELSE semaphore + 1
        /\ \/ UNCHANGED kvstore
           \/ /\ tasks[job_id].pc = "save_running"
              /\ kvstore' = [kvstore EXCEPT ![job_id] = tasks[job_id].snapshot]
        /\ LET job == job_cancelled(job_dicts[job_id])
           IN  /\ job_dicts' = [job_dicts EXCEPT ![job_id] = job]
               /\ tasks' = [tasks EXCEPT ![job_id] = Task("save_cancelled", job)]
    /\ TaskUnchanged

\* The save of status CANCELLED returns, and CancelledError ends the task.
run_job_cancelled_saved ==
    /\ \E job_id \in StoredJobIds :
        /\ tasks[job_id].pc = "save_cancelled"
        /\ kvstore' = [kvstore EXCEPT ![job_id] = tasks[job_id].snapshot]
        /\ tasks' = [tasks EXCEPT ![job_id] = Task("done", NoJob)]
    /\ UNCHANGED <<semaphore, job_dicts>>
    /\ TaskUnchanged

\* The jobs a KVStore holds when a scheduler starts.
PersistedJob(job_id, job_type, status) ==
    LET job == job_info(job_id, job_type, "p", job_id)
    IN  CASE status = PENDING -> job
          [] status = RUNNING -> job_running(job)
          [] status = COMPLETED -> job_completed(job_running(job), executor_return("p"))
          [] status = FAILED -> job_failed(job_running(job), "executor error")
          [] OTHER -> job_cancelled(job)

PersistedStores ==
    { [job_id \in StoredJobIds |->
          IF job_id <= n THEN PersistedJob(job_id, "ok", statuses[job_id]) ELSE NoJob] :
        n \in 1..MaxJobs, statuses \in [JobIds -> JobStatus] }

SchedulerProcess(state, max_concurrent_jobs, created) ==
    [state |-> state, max_concurrent_jobs |-> max_concurrent_jobs, position |-> 0,
     created |-> created]

\* A scheduler on an empty KVStore, handed to its caller by scheduler_impl; the
\* caller has registered the executors of its job types.
InitScheduler ==
    /\ ResponsesIdle
    /\ SanitizerIdle
    /\ ListsIdle
    /\ kvstore = [job_id \in StoredJobIds |-> NoJob]
    /\ jobs = {}
    /\ job_dicts = [job_id \in StoredJobIds |-> NoJob]
    /\ tasks = [job_id \in StoredJobIds |-> NoTask]
    /\ executors = JobTypes
    /\ api = {}
    /\ returned = NoReturn
    /\ \E max_concurrent_jobs \in 1..MaxConcurrentJobs :
        /\ scheduler = SchedulerProcess("ready", max_concurrent_jobs, 0)
        /\ semaphore = max_concurrent_jobs
    /\ history = [job_id \in StoredJobIds |-> NoHistory]
    /\ listed = NoListing

NextScheduler ==
    \/ schedule_job
    \/ schedule_job_saved
    \/ cancel_job
    \/ cancel_job_saved
    \/ delete_job
    \/ delete_job_deleted
    \/ run_job_start
    \/ run_job_acquired
    \/ run_job_execute
    \/ executor_returns
    \/ executor_raises
    \/ run_job_completed
    \/ run_job_failed
    \/ run_job_cancelled
    \/ run_job_cancelled_saved

SpecScheduler == InitScheduler /\ [][NextScheduler]_vars


\* A scheduler that starts on a KVStore that holds jobs: initialize recovers
\* them; the caller registers its executors once scheduler_impl has returned.
InitRecovery ==
    /\ ResponsesIdle
    /\ SanitizerIdle
    /\ ListsIdle
    /\ kvstore \in PersistedStores
    /\ jobs = {}
    /\ job_dicts = [job_id \in StoredJobIds |-> NoJob]
    /\ tasks = [job_id \in StoredJobIds |-> NoTask]
    /\ semaphore = 0
    /\ executors = {}
    /\ api = {}
    /\ returned = NoReturn
    /\ \E max_concurrent_jobs \in 1..MaxConcurrentJobs :
        scheduler = SchedulerProcess("new", max_concurrent_jobs,
                        Cardinality({job_id \in StoredJobIds : kvstore[job_id] # NoJob}))
    /\ history = [job_id \in StoredJobIds |-> NoHistory]
    /\ listed = NoListing

NextRecovery ==
    \/ initialize
    \/ resume_saved
    \/ register_job_executor
    \/ schedule_job
    \/ schedule_job_saved
    \/ cancel_job
    \/ cancel_job_saved
    \/ run_job_start
    \/ run_job_acquired
    \/ run_job_execute
    \/ executor_returns
    \/ executor_raises
    \/ run_job_completed
    \/ run_job_failed
    \/ run_job_cancelled
    \/ run_job_cancelled_saved

SpecRecovery == InitRecovery /\ [][NextRecovery]_vars

\* ------------------------------------------------ properties of the scheduler
Executing == {job_id \in JobIds : tasks[job_id].pc = "executing"}

TerminalStatus == {COMPLETED, FAILED, CANCELLED}

\* C26: at any time at most max_concurrent_jobs executors are executing,
\* whatever the interleaving of schedule_job, cancel_job, the completion and
\* the failure of jobs and the recovery of persisted jobs.
C26_AtMostMaxConcurrentJobs == Cardinality(Executing) <= scheduler.max_concurrent_jobs

C26_Witness ==
    /\ Cardinality(Executing) = scheduler.max_concurrent_jobs
    /\ \E job_id \in JobIds :
        /\ tasks[job_id].pc = "executing"
        /\ history[job_id].recovered = RUNNING
    /\ \E job_id \in JobIds :
        /\ tasks[job_id].pc = "acquire"
        /\ history[job_id].scheduled

\* C27: cancel_job(job_id) returns False and changes no job when the job is
\* unknown or already COMPLETED, FAILED or CANCELLED; for a PENDING or RUNNING
\* job it marks the job CANCELLED and returns True once the save is done; and
\* a job cancelled after schedule_job returned is afterwards found CANCELLED
\* or COMPLETED, never PENDING or RUNNING.
C27_CancelStep ==
    \A job_id \in JobIds :
        (cancel_job /\ cancel_job_call(job_id)) =>
            IF job_id \notin jobs \/ job_dicts[job_id].status \in TerminalStatus
            THEN /\ returned' = Return("cancel_job", job_id, "False")
                 /\ UNCHANGED <<jobs, job_dicts, kvstore, tasks, api>>
            ELSE /\ job_dicts[job_id].status \in {PENDING, RUNNING}
                 /\ job_dicts'[job_id].status = CANCELLED
                 /\ \E frame \in api' \ api :
                        /\ frame.op = "cancel_job"
                        /\ frame.job_id = job_id
                        /\ frame.snapshot.status = CANCELLED

C27_CancelReturn ==
    \A frame \in api :
        (frame.op = "cancel_job" /\ frame \notin api') =>
            returned' = Return("cancel_job", frame.job_id, "True")

C27_CancelledStays ==
    \A job_id \in jobs :
        history[job_id].cancelled = "yes" =>
            job_dicts[job_id].status \in {CANCELLED, COMPLETED}

C27_CancelJob ==
    /\ [][C27_CancelStep /\ C27_CancelReturn]_vars
    /\ []C27_CancelledStays

C27_Witness ==
    /\ returned = Return("cancel_job", 2, "False")
    /\ 2 \in jobs
    /\ job_dicts[2].status = COMPLETED
    /\ history[1].scheduled
    /\ history[1].cancelled = "yes"
    /\ job_dicts[1].status = CANCELLED
    /\ kvstore[1].status = CANCELLED
    /\ tasks[1].pc = "done"

\* C28: delete_job(job_id) returns False and changes nothing when the job is
\* unknown or its status is PENDING or RUNNING; for a COMPLETED, FAILED or
\* CANCELLED job it removes the job and returns True once the KVStore delete
\* is done; after the removal get_job_info for that id raises the 'not
\* found' error and a second delete_job returns False.
C28_DeleteStep ==
    \A job_id \in JobIds :
        (delete_job /\ delete_job_call(job_id)) =>
            IF job_id \notin jobs \/ job_dicts[job_id].status \in {PENDING, RUNNING}
            THEN /\ returned' = Return("delete_job", job_id, "False")
                 /\ UNCHANGED <<jobs, job_dicts, kvstore, tasks, api>>
            ELSE /\ job_dicts[job_id].status \in TerminalStatus
                 /\ jobs' = jobs \ {job_id}
                 /\ \E frame \in api' \ api :
                        frame.op = "delete_job" /\ frame.job_id = job_id

C28_DeleteReturn ==
    \A frame \in api :
        (frame.op = "delete_job" /\ frame \notin api') =>
            /\ returned' = Return("delete_job", frame.job_id, "True")
            /\ frame.job_id \notin jobs'

C28_DeletedIsGone ==
    \A job_id \in JobIds :
        history[job_id].deleted =>
            /\ get_job_info(jobs, job_dicts, job_id).error = "ValueError: Job not found"
            /\ ENABLED (scheduler.state = "ready" /\ delete_job_call(job_id)
                        /\ returned' = Return("delete_job", job_id, "False"))

C28_DeleteJob ==
    /\ [][C28_DeleteStep /\ C28_DeleteReturn]_vars
    /\ []C28_DeletedIsGone

C28_Witness ==
    /\ history[1].deleted
    /\ returned = Return("delete_job", 1, "False")
    /\ 1 \notin jobs
    /\ kvstore[1] = NoJob
    /\ 2 \in jobs
    /\ job_dicts[2].status \in {PENDING, RUNNING}

\* ------------------------------------------------------------------ list_jobs
\* The None of the optional arguments job_type and status of list_jobs.
NotGiven == "None"

\* list(self._jobs.values()): the job dictionaries in insertion order, the
\* order in which the ids were issued or loaded.
RECURSIVE values(_, _)
values(keys, dicts) ==
    IF keys = {} THEN <<>>
    ELSE LET job_id == CHOOSE k \in keys : \A other \in keys : k <= other
         IN  <<dicts[job_id]>> \o values(keys \ {job_id}, dicts)

\* [j for j in jobs if j[field] == value], applied when value is not None.
filter_job_type(job_list, job_type) ==
    LET matches(j) == j.job_type = job_type
    IN  IF job_type # NotGiven THEN SelectSeq(job_list, matches) ELSE job_list

filter_status(job_list, status) ==
    LET matches(j) == j.status = status
    IN  IF status # NotGiven THEN SelectSeq(job_list, matches) ELSE job_list

\* One step of the stable sort: job goes after the jobs that are not older.
RECURSIVE insert(_, _)
insert(sorted, job) ==
    IF sorted = <<>> THEN <<job>>
    ELSE IF Head(sorted).created_at >= job.created_at
         THEN <<Head(sorted)>> \o insert(Tail(sorted), job)
         ELSE <<job>> \o sorted

\* A variant of the sort that puts the oldest job first.
RECURSIVE sort_oldest_first(_)
sort_oldest_first(job_list) ==
    IF job_list = <<>> THEN <<>>
    ELSE LET rest == sort_oldest_first(Tail(job_list))
             newer(j) == j.created_at > Head(job_list).created_at
             not_newer(j) == j.created_at <= Head(job_list).created_at
         IN  SelectSeq(rest, not_newer) \o <<Head(job_list)>> \o SelectSeq(rest, newer)

\* jobs.sort(key=lambda j: j["created_at"], reverse=True): newest first, jobs
\* of equal created_at in the order they had.
RECURSIVE sort(_)
sort(job_list) ==
    IF job_list = <<>> THEN <<>>
    ELSE insert(sort(SubSeq(job_list, 1, Len(job_list) - 1)), job_list[Len(job_list)])

\* The index a slice bound stands for in a list of length n.
slice_index(i, n) ==
    IF i < 0 THEN (IF i + n < 0 THEN 0 ELSE i + n) ELSE (IF i > n THEN n ELSE i)

\* jobs[start : stop]
slice(job_list, start, stop) ==
    LET lo == slice_index(start, Len(job_list))
        hi == slice_index(stop, Len(job_list))
    IN  IF lo >= hi THEN <<>> ELSE SubSeq(job_list, lo + 1, hi)

\* job.copy() without job_data
job_copy(job) == [job EXCEPT !.job_data = ""]

\* What list_jobs returns on the job table (keys, dicts).
list_jobs_return(keys, dicts, job_type, status, limit, offset) ==
    LET filtered == filter_status(filter_job_type(values(keys, dicts), job_type), status)
        page == slice(sort(filtered), offset, offset + limit)
    IN  [i \in 1..Len(page) |-> job_copy(page[i])]

ListedStatuses == {COMPLETED, CANCELLED}
CreatedAts == 1..2

\* The job of a table of finished jobs.
ListedJob(job_id, job_type, status, created_at) ==
    [PersistedJob(job_id, job_type, status) EXCEPT !.created_at = created_at]

ListedIds == 1..MaxListed

ListedStores ==
    { [job_id \in ListedIds |->
          IF job_id <= n
          THEN ListedJob(job_id, types[job_id], statuses[job_id], created[job_id])
          ELSE NoJob] :
        n \in 0..MaxListed, types \in [ListedIds -> JobTypes],
        statuses \in [ListedIds -> ListedStatuses], created \in [ListedIds -> CreatedAts] }

\* A scheduler that has initialized on a KVStore of finished jobs: they are
\* loaded, and none of them has a task.
InitList ==
    /\ ResponsesIdle
    /\ SanitizerIdle
    /\ ListsIdle
    /\ kvstore \in ListedStores
    /\ jobs = {job_id \in ListedIds : kvstore[job_id] # NoJob}
    /\ job_dicts = kvstore
    /\ tasks = [job_id \in ListedIds |-> NoTask]
    /\ executors = JobTypes
    /\ api = {}
    /\ returned = NoReturn
    /\ \E max_concurrent_jobs \in 1..MaxConcurrentJobs :
        /\ scheduler = SchedulerProcess("ready", max_concurrent_jobs, Cardinality(jobs))
        /\ semaphore = max_concurrent_jobs
    /\ history = [job_id \in ListedIds |-> [NoHistory EXCEPT !.recovered = kvstore[job_id].status]]
    /\ listed = NoListing

ListUnchanged ==
    UNCHANGED <<jobs, job_dicts, kvstore, tasks, semaphore, executors, api, returned,
                scheduler, history, response_vars, sanitizer_vars, list_vars>>

\* A client calls list_jobs.
list_jobs ==
    /\ scheduler.state = "ready"
    /\ listed = NoListing
    /\ \E job_type \in {NotGiven} \cup JobTypes,
          status \in {NotGiven, FAILED} \cup ListedStatuses,
          limit \in 0..MaxListed, offset \in 0..MaxListed :
        listed' = [job_type |-> job_type, status |-> status, limit |-> limit,
                   offset |-> offset,
                   pages |-> <<list_jobs_return(jobs, job_dicts, job_type, status,
                                                limit, offset)>>]
    /\ ListUnchanged

\* The client asks for the page after the pages it has.
list_jobs_next_page ==
    /\ scheduler.state = "ready"
    /\ listed # NoListing
    /\ listed.limit > 0
    /\ Len(listed.pages) < MaxPages
    /\ listed' = [listed EXCEPT !.pages =
           Append(@, list_jobs_return(jobs, job_dicts, listed.job_type, listed.status,
                                      listed.limit,
                                      listed.offset + Len(listed.pages) * listed.limit))]
    /\ ListUnchanged

NextList ==
    \/ list_jobs
    \/ list_jobs_next_page

SpecList == InitList /\ [][NextList]_vars

\* The jobs of the table that pass the filters of the listing.
Matching ==
    {job_id \in jobs :
        /\ listed.job_type # NotGiven => job_dicts[job_id].job_type = listed.job_type
        /\ listed.status # NotGiven => job_dicts[job_id].status = listed.status}

PageOffset(k) == listed.offset + (k - 1) * listed.limit

PageLen(k) ==
    LET left == Cardinality(Matching) - PageOffset(k)
    IN  IF left <= 0 THEN 0 ELSE IF left < listed.limit THEN left ELSE listed.limit

\* C29: list_jobs returns exactly the slice [offset, offset + limit) of the
\* jobs that match the given job_type and status, newest first by created_at:
\* a page has the entries the slice has (at most limit, none when the offset
\* is at or beyond the number of matching jobs), every entry is a matching job
\* without job_data at the rank its created_at gives it, and successive
\* pages share no job.
C29_ListJobsIsTheSlice ==
    listed # NoListing =>
        /\ \A k \in 1..Len(listed.pages) :
            LET page == listed.pages[k]
            IN  /\ Len(page) = PageLen(k)
                /\ \A i \in 1..Len(page) :
                    /\ page[i].job_id \in Matching
                    /\ page[i] = job_copy(job_dicts[page[i].job_id])
                    /\ Cardinality({m \in Matching :
                           job_dicts[m].created_at > page[i].created_at})
                         <= PageOffset(k) + i - 1
                    /\ Cardinality({m \in Matching :
                           job_dicts[m].created_at >= page[i].created_at})
                         >= PageOffset(k) + i
        /\ \A k1, k2 \in 1..Len(listed.pages) :
            \A i1 \in 1..Len(listed.pages[k1]), i2 \in 1..Len(listed.pages[k2]) :
                listed.pages[k1][i1].job_id = listed.pages[k2][i2].job_id
                    => (k1 = k2 /\ i1 = i2)

C29_Witness ==
    /\ jobs = 1..3
    /\ listed.job_type = "ok"
    /\ listed.status = NotGiven
    /\ listed.limit = 1
    /\ listed.offset = 0
    /\ Matching = {1, 3}
    /\ job_dicts[1].created_at < job_dicts[3].created_at
    /\ Len(listed.pages) = 3
    /\ listed.pages[1] = <<job_copy(job_dicts[3])>>
    /\ listed.pages[2] = <<job_copy(job_dicts[1])>>
    /\ listed.pages[3] = <<>>

\* The steps the event loop takes by itself: a coroutine that is ready to run
\* runs, a KVStore call that is awaited returns, an executor ends.
SchedulerRuns ==
    \/ initialize
    \/ resume_saved
    \/ schedule_job_saved
    \/ cancel_job_saved
    \/ run_job_start
    \/ run_job_acquired
    \/ run_job_execute
    \/ executor_returns
    \/ executor_raises
    \/ run_job_completed
    \/ run_job_failed
    \/ run_job_cancelled
    \/ run_job_cancelled_saved

SpecRecoveryFair == SpecRecovery /\ WF_vars(SchedulerRuns)

\* C30: on initialize, every persisted job stored as PENDING or RUNNING gets a
\* task and runs again to a terminal status; a job stored as RUNNING has been
\* reset to PENDING with started_at cleared, and saved so, when its task is
\* created; jobs stored as COMPLETED, FAILED or CANCELLED are loaded as they
\* are and never get a task.
C30_Restarted ==
    \A job_id \in JobIds :
        (history[job_id].recovered \in {PENDING, RUNNING} /\ scheduler.state = "ready")
            => tasks[job_id] # NoTask

C30_ResetFirst ==
    \A job_id \in JobIds :
        (history[job_id].recovered = RUNNING /\ tasks[job_id].pc = "created")
            => /\ job_dicts[job_id].status = PENDING
               /\ job_dicts[job_id].started_at = None
               /\ kvstore[job_id] = job_dicts[job_id]

C30_TerminalNeverRerun ==
    \A job_id \in JobIds :
        history[job_id].recovered \in TerminalStatus
            => /\ job_id \in jobs
               /\ job_dicts[job_id].status = history[job_id].recovered
               /\ job_dicts[job_id] = kvstore[job_id]
               /\ tasks[job_id] = NoTask

C30_RecoveredJobsRunAgain ==
    /\ [](C30_Restarted /\ C30_ResetFirst /\ C30_TerminalNeverRerun)
    /\ \A job_id \in JobIds :
        (kvstore[job_id].status \in {PENDING, RUNNING} /\ scheduler.state = "new")
            ~> (/\ tasks[job_id].pc \in {"done", "cancelled"}
                /\ job_dicts[job_id].status \in TerminalStatus)

C30_Witness ==
    /\ history[1].recovered = RUNNING
    /\ job_dicts[1].status = COMPLETED
    /\ job_dicts[1].result = executor_return(job_dicts[1].job_data)
    /\ kvstore[1] = job_dicts[1]
    /\ tasks[1].pc = "done"
    /\ history[2].recovered = CANCELLED
    /\ tasks[2] = NoTask

\* A scheduler whose jobs are scheduled, run and cancelled, none deleted.
NextRun ==
    \/ schedule_job
    \/ schedule_job_saved
    \/ cancel_job
    \/ cancel_job_saved
    \/ run_job_start
    \/ run_job_acquired
    \/ run_job_execute
    \/ executor_returns
    \/ executor_raises
    \/ run_job_completed
    \/ run_job_failed
    \/ run_job_cancelled
    \/ run_job_cancelled_saved

SpecRun == InitScheduler /\ [][NextRun]_vars

SpecRunFair == SpecRun /\ WF_vars(SchedulerRuns)

\* C25: every job scheduled for a job type whose registered executor returns
\* normally, and never cancelled, eventually is COMPLETED with progress 1.0
\* and result equal to what the executor returned, in memory and in the
\* KVStore, also when more jobs are scheduled than max_concurrent_jobs.
C25_Completed(job_id) ==
    /\ job_dicts[job_id].status = COMPLETED
    /\ job_dicts[job_id].progress = 1
    /\ job_dicts[job_id].result = executor_return(job_dicts[job_id].job_data)
    /\ kvstore[job_id] = job_dicts[job_id]

C25_ScheduledJobsComplete ==
    /\ [](\A job_id \in jobs :
            job_dicts[job_id].status = COMPLETED =>
                /\ job_dicts[job_id].progress = 1
                /\ job_dicts[job_id].result = executor_return(job_dicts[job_id].job_data))
    /\ \A job_id \in JobIds :
        (/\ job_id \in jobs
         /\ job_dicts[job_id].job_type = "ok"
         /\ history[job_id].executor_registered)
            ~> (C25_Completed(job_id) \/ history[job_id].cancelled # "no")

C25_Witness ==
    /\ Cardinality(jobs) > scheduler.max_concurrent_jobs
    /\ \A job_id \in JobIds :
        /\ history[job_id].scheduled
        /\ history[job_id].cancelled = "no"
        /\ C25_Completed(job_id)
        /\ tasks[job_id].pc = "done"

\* C31: a job recovered at initialize is not executing, and is not FAILED for
\* a missing executor, as long as the executor of its job type is not
\* registered.
C31_RecoveredJobsWaitForExecutors ==
    \A job_id \in JobIds :
        (/\ history[job_id].recovered \in {PENDING, RUNNING}
         /\ job_dicts[job_id].job_type \notin executors)
            => /\ tasks[job_id].pc # "executing"
               /\ ~(/\ job_dicts[job_id].status = FAILED
                    /\ job_dicts[job_id].error = "No executor registered for job type")

\* The step makes job_id FAILED.
C32_Fails(job_id) ==
    /\ job_id \in jobs
    /\ job_dicts[job_id].status # FAILED
    /\ job_dicts'[job_id].status = FAILED

\* The failure of a job releases its slot and changes no other job.
C32_FailureIsolated ==
    \A job_id \in JobIds :
        C32_Fails(job_id) =>
            /\ semaphore' = semaphore + 1
            /\ job_dicts'[job_id].result = error_details
            /\ \A other \in JobIds \ {job_id} : job_dicts'[other] = job_dicts[other]

\* A job that reaches _execute_job without an executor of its type fails.
C32_MissingExecutorFails ==
    \A job_id \in JobIds :
        (/\ run_job_execute
         /\ tasks'[job_id] # tasks[job_id]
         /\ job_dicts[job_id].job_type \notin executors)
            => /\ C32_Fails(job_id)
               /\ job_dicts'[job_id].error = "No executor registered for job type"

\* A job whose executor raises fails, with the text of the exception.
C32_RaiseFails ==
    \A job_id \in JobIds :
        (executor_raises /\ tasks'[job_id] # tasks[job_id])
            => /\ C32_Fails(job_id)
               /\ \E e \in ExecutorErrors : job_dicts'[job_id].error = str(e)

\* A job that failed stays FAILED: it is never COMPLETED.
C32_FailedStays ==
    \A job_id \in JobIds :
        job_dicts[job_id].result = error_details => job_dicts[job_id].status = FAILED

\* C32 as stated: a job whose job_type has no registered executor when it
\* runs, or whose executor raises, ends FAILED with a non-empty error and never
\* COMPLETED; its failure releases its slot and changes no other job.
C32_FailedWithNonEmptyError ==
    /\ [][/\ C32_FailureIsolated
          /\ C32_MissingExecutorFails
          /\ C32_RaiseFails
          /\ \A job_id \in JobIds : C32_Fails(job_id) => job_dicts'[job_id].error # ""]_vars
    /\ []C32_FailedStays

\* C32 amended: the same, with the error equal to str(e) of the exception,
\* which is empty when the executor raises an exception without a message and
\* is the fixed text for a missing executor.
C32_FailedWithErrorOfException ==
    /\ [][C32_FailureIsolated /\ C32_MissingExecutorFails /\ C32_RaiseFails]_vars
    /\ []C32_FailedStays

C32_Witness ==
    /\ history[1].recovered \in {PENDING, RUNNING}
    /\ job_dicts[1].status = FAILED
    /\ job_dicts[1].error = "No executor registered for job type"
    /\ kvstore[1] = job_dicts[1]
    /\ history[2].scheduled
    /\ job_dicts[2].job_type = "bad"
    /\ job_dicts[2].status = FAILED
    /\ job_dicts[2].error = ""
    /\ tasks[2].pc = "done"
    /\ semaphore = scheduler.max_concurrent_jobs

\* ------------------------------------------------ failed and unterminated streams
FailedEvents(events) == {i \in 1..Len(events) : events[i].type = "response.failed"}
FinalEvents(events) ==
    {i \in 1..Len(events) : events[i].type \in {"response.completed", "response.incomplete"}}
LastFailed(events) ==
    events[CHOOSE i \in FailedEvents(events) : \A j \in FailedEvents(events) : j <= i].response

\* What the call raises for a failed stream: a RuntimeError with the message
\* of the failed response's error, or with the fixed text.
RaisedForFailed ==
    /\ call.pc = "raised"
    /\ call.error = "RuntimeError: OpenAI response failed"
    /\ call.error_message =
           IF LastFailed(delivered).error = NoError
           THEN <<"Response stream failed without error details">>
           ELSE LastFailed(delivered).error.message
    /\ call.result = NoResponse

RaisedForUnterminated ==
    /\ call.pc = "raised"
    /\ call.error = "ValueError: never reached a terminal state"
    /\ call.result = NoResponse

RejectedUpFront(error) ==
    /\ call'.pc = "raised"
    /\ call'.error = error
    /\ calls' = <<>>
    /\ safety_api' = <<>>
    /\ gen' = NoGen
    /\ delivered' = <<>>
    /\ responses_store' = responses_store
    /\ conversations' = conversations

\* With a well-formed id the conversation is looked up first: its items are
\* listed and inference is called only after get_conversation found it.
ConversationCheckedFirst ==
    (/\ req.conversation # NoConversation
     /\ req.conversation.prefix = "conv_"
     /\ calls # <<>>)
    => /\ calls[1] = "conversations.get_conversation"
       /\ Len(calls) > 1 => req.conversation.key \in DOMAIN conversations
       /\ req.conversation.key \notin DOMAIN conversations
              => call.pc = "raised" /\ call.error = "ConversationNotFoundError"

\* C34 as stated: a call with a conversation id that does not start with
\* 'conv_' raises InvalidConversationIdError with no lookup, store access,
\* safety check or inference call; with a well-formed id the existence of the
\* conversation is checked before its items are loaded or inference is called.
C34_MalformedIdAlwaysInvalidConversationId ==
    /\ [][ (/\ requests' = requests + 1
            /\ req'.conversation # NoConversation
            /\ req'.conversation.prefix # "conv_")
           => RejectedUpFront("InvalidConversationIdError") ]_vars
    /\ []ConversationCheckedFirst

\* C34 as amended: the malformed id raises InvalidConversationIdError when
\* previous_response_id is not given; a call with both parameters raises the
\* ValueError of the mutually exclusive parameters, whatever the form of the
\* conversation id. Both are raised with no backend touched.
C34_MalformedIdRejected ==
    /\ [][ (/\ requests' = requests + 1
            /\ req'.conversation # NoConversation
            /\ req'.conversation.prefix # "conv_")
           => IF req'.previous_response_id = None
              THEN RejectedUpFront("InvalidConversationIdError")
              ELSE RejectedUpFront("ValueError: mutually exclusive parameters") ]_vars
    /\ []ConversationCheckedFirst

C34_Witness ==
    /\ call.pc = "raised"
    /\ call.error = "InvalidConversationIdError"
    /\ req.conversation = ConversationId("bad", 1)
    /\ req.previous_response_id = None
    /\ calls = <<>>

\* ------------------------------------------------- ids of the stored input items
\* C35: every message among the input items of a stored response has an id: a
\* free-text input is stored as one user message with a generated id, and a
\* message of a list input keeps its id or is given one.
C35_StoredMessagesHaveIds ==
    \A response_id \in DOMAIN responses_store :
        \A i \in 1..Len(responses_store[response_id].input) :
            responses_store[response_id].input[i].type = "message"
                => responses_store[response_id].input[i].id # None

\* --------------------------------------- concurrent responses and their lists
\* Python lists are objects: a list is known by its identity, and heap gives the
\* elements it holds now. list(...) and .copy() make a new object; .extend and
\* .append change the elements of an existing one.
NoList == None

new_list(h, elements) == (Cardinality(DOMAIN h) + 1 :> elements) @@ h

last_list(h) == Cardinality(DOMAIN h)

list_extend(h, list, elements) == [h EXCEPT ![list] = @ \o elements]

\* The input argument of a call: free text, or a list object of the caller.
ObjInput(list) == [kind |-> "list", list |-> list]

\* The value of an input whose items are read from the heap.
input_value(h, input) == IF IsStr(input) THEN input ELSE ListInput(h[input.list])

\* The previous response both concurrent requests chain from, as
\* responses_store.get_response_object returns it: the lists of the stored
\* object.
previous_response_lists == [input |-> 1, output |-> 2, messages |-> 3]

StoredLists == {previous_response_lists.input, previous_response_lists.output,
                previous_response_lists.messages}

\* A variant of _prepend_previous_response that extends previous_response.input
\* itself instead of a copy of it.
prepend_previous_response_in_place(h, input, previous_response) ==
    LET new_input_items == previous_response.input
        h2 == list_extend(h, new_input_items, h[previous_response.output])
    IN  [heap |-> IF IsStr(input)
                  THEN list_extend(h2, new_input_items,
                           <<OpenAIResponseMessage("user", StrContent(input.text), None)>>)
                  ELSE list_extend(h2, new_input_items, h2[input.list]),
         new_input_items |-> new_input_items]

\* _prepend_previous_response on list objects: new_input_items is a copy of
\* previous_response.input, extended by the previous output and the new input.
prepend_previous_response_lists(h, input, previous_response) ==
    LET h1 == new_list(h, h[previous_response.input])
        new_input_items == last_list(h1)
        h2 == list_extend(h1, new_input_items, h1[previous_response.output])
    IN  [heap |-> IF IsStr(input)
                  THEN list_extend(h2, new_input_items,
                           <<OpenAIResponseMessage("user", StrContent(input.text), None)>>)
                  ELSE list_extend(h2, new_input_items, h2[input.list]),
         new_input_items |-> new_input_items]

\* TypeAdapter(list[OpenAIMessageParam]).validate_python(messages): a new list
\* object that holds the validated messages.
validate_python(h, messages) == new_list(h, h[messages])

NoBuild ==
    [pc |-> "idle", input |-> StrInput(""), previous_response_id |-> None,
     all_input |-> NoList, messages |-> NoList]

ConcurrentResponses == 1..MaxRequests

ConcurrentInputs == {"text", "list"}

\* A stored previous response with raw messages, or a legacy one without.
InitConcurrent ==
    /\ ResponsesIdle
    /\ SanitizerIdle
    /\ SchedulerIdle
    /\ listed = NoListing
    /\ \E messages \in {<<>>, <<OpenAIMessageParam("user", <<"a">>),
                                OpenAIMessageParam("assistant", <<"r">>)>>} :
          heap = <<<<OpenAIResponseMessage("user", StrContent("a"), 9)>>,
                   <<OpenAIResponseMessage("assistant", StrContent("r"), 8)>>,
                   messages>>
    /\ building = [r \in ConcurrentResponses |-> NoBuild]

ConcurrentUnchanged == UNCHANGED <<response_vars, sanitizer_vars, scheduler_vars>>

\* create_openai_response of response r up to the first await of
\* _process_input_with_previous_response. A list input is a list object of the
\* caller of r.
process_input_call(r) ==
    /\ building[r].pc = "idle"
    /\ \E kind \in ConcurrentInputs, previous_response_id \in {None, 1} :
        LET h == IF kind = "list"
                 THEN new_list(heap, <<OpenAIResponseMessage("user", StrContent("b"), r)>>)
                 ELSE heap
            input == IF kind = "list" THEN ObjInput(last_list(h)) ELSE StrInput("b")
        IN  /\ heap' = h
            /\ building' = [building EXCEPT ![r] =
                   [NoBuild EXCEPT !.input = input,
                       !.previous_response_id = previous_response_id,
                       !.all_input = IF previous_response_id = None /\ kind = "list"
                                     THEN input.list ELSE NoList,
                       !.pc = IF previous_response_id # None THEN "get" ELSE "convert"]]
    /\ ConcurrentUnchanged

\* get_response_object has returned: all_input is built, and the stored
\* messages are validated into the list messages; the conversion of the new
\* input is awaited.
process_input_get(r) ==
    /\ building[r].pc = "get"
    /\ LET previous_response == previous_response_lists
           p == prepend_previous_response_lists(heap, building[r].input, previous_response)
       IN  IF p.heap[previous_response.messages] # <<>>
           THEN /\ heap' = validate_python(p.heap, previous_response.messages)
                /\ building' = [building EXCEPT ![r].pc = "convert",
                                   ![r].all_input = p.new_input_items,
                                   ![r].messages = last_list(heap')]
           ELSE /\ heap' = p.heap
                /\ building' = [building EXCEPT ![r].pc = "convert",
                                   ![r].all_input = p.new_input_items]
    /\ ConcurrentUnchanged

\* convert_response_input_to_chat_messages has returned: messages is extended
\* by the messages of the new input, or is the list of the converted messages.
process_input_convert(r) ==
    /\ building[r].pc = "convert"
    /\ IF building[r].messages # NoList
       THEN /\ heap' = list_extend(heap, building[r].messages,
                           convert_response_input_to_chat_messages(
                               input_value(heap, building[r].input)))
            /\ building' = [building EXCEPT ![r].pc = "built"]
       ELSE /\ heap' = new_list(heap,
                           convert_response_input_to_chat_messages(
                               IF building[r].previous_response_id # None
                               THEN ListInput(heap[building[r].all_input])
                               ELSE input_value(heap, building[r].input)))
            /\ building' = [building EXCEPT ![r].pc = "built",
                               ![r].messages = last_list(heap')]
    /\ ConcurrentUnchanged

\* The orchestrator of r appends the assistant message of a turn to its
\* message buffer, the list messages.
orchestrator_append(r) ==
    /\ building[r].pc = "built"
    /\ heap' = list_extend(heap, building[r].messages,
                   <<OpenAIMessageParam("assistant", <<"r">>)>>)
    /\ building' = [building EXCEPT ![r].pc = "generated"]
    /\ ConcurrentUnchanged

NextConcurrent ==
    \E r \in ConcurrentResponses :
        \/ process_input_call(r)
        \/ process_input_get(r)
        \/ process_input_convert(r)
        \/ orchestrator_append(r)

SpecConcurrent == InitConcurrent /\ [][NextConcurrent]_vars

\* The list objects response r built: new_input_items of a chained response,
\* and messages.
OwnLists(r) ==
    ({building[r].messages} \cup
     (IF building[r].previous_response_id # None THEN {building[r].all_input} ELSE {}))
        \ {NoList}

\* C36: two responses generated concurrently, chained from the same previous
\* response or not, share no list: the lists each one builds are objects of its
\* own, no step changes the input, output or messages of the stored previous
\* response, and a step of one response changes no list of the other.
C36_NoSharedMutableState ==
    /\ [](\A r \in ConcurrentResponses :
             /\ OwnLists(r) \cap StoredLists = {}
             /\ \A o \in ConcurrentResponses \ {r} : OwnLists(r) \cap OwnLists(o) = {})
    /\ [][ /\ \A list \in StoredLists : heap'[list] = heap[list]
           /\ \A r \in ConcurrentResponses :
                  building'[r] = building[r]
                      => \A list \in OwnLists(r) : heap'[list] = heap[list] ]_vars

C36_Witness ==
    /\ \A r \in ConcurrentResponses :
           /\ building[r].pc = "generated"
           /\ building[r].previous_response_id # None
    /\ building[1].messages # building[2].messages
    /\ building[1].all_input # building[2].all_input
    /\ heap[previous_response_lists.messages] # <<>>
    /\ Len(heap[building[1].all_input]) = 3
    /\ Len(heap[building[2].messages]) = 4

C38_TerminalStatusIsFinal ==
    [][ \A job_id \in jobs \cap jobs' :
            job_dicts[job_id].status \in TerminalStatus
                => job_dicts'[job_id].status = job_dicts[job_id].status ]_vars

\* ------------------------------------------------------- deleted jobs stay deleted
\* delete_job has returned True for the job.
DeleteReturned(job_id) ==
    /\ history[job_id].deleted
    /\ ~\E frame \in api : frame.op = "delete_job" /\ frame.job_id = job_id

\* C39: after delete_job returned True for a job, the job is neither in the job
\* table nor in the KVStore, in every later state: no save of the job's task or
\* of a cancel_job writes it back.
C39_DeletedStaysDeleted ==
    \A job_id \in JobIds :
        DeleteReturned(job_id) => job_id \notin jobs /\ kvstore[job_id] = NoJob

\* -------------------------------------------------- the number of RUNNING jobs
\* A scheduler restarted, with the same configuration, on the KVStore of a
\* process that stopped with MaxRecovered unfinished jobs: at most
\* max_concurrent_jobs of them were RUNNING, the others waited for a slot.
RestartStores(max_concurrent_jobs) ==
    { [job_id \in StoredJobIds |-> PersistedJob(job_id, "ok", statuses[job_id])] :
        statuses \in { f \in [StoredJobIds -> {PENDING, RUNNING}] :
                          Cardinality({job_id \in StoredJobIds : f[job_id] = RUNNING})
                              <= max_concurrent_jobs } }

InitRestart ==
    /\ ResponsesIdle
    /\ SanitizerIdle
    /\ ListsIdle
    /\ jobs = {}
    /\ job_dicts = [job_id \in StoredJobIds |-> NoJob]
    /\ tasks = [job_id \in StoredJobIds |-> NoTask]
    /\ semaphore = 0
    /\ executors = {}
    /\ api = {}
    /\ returned = NoReturn
    /\ \E max_concurrent_jobs \in 1..MaxRestartSlots :
        /\ scheduler = SchedulerProcess("new", max_concurrent_jobs, MaxRecovered)
        /\ kvstore \in RestartStores(max_concurrent_jobs)
    /\ history = [job_id \in StoredJobIds |-> NoHistory]
    /\ listed = NoListing

NextRestart ==
    \/ initialize
    \/ resume_saved
    \/ register_job_executor
    \/ run_job_start
    \/ run_job_acquired
    \/ run_job_execute
    \/ executor_returns
    \/ run_job_completed
    \/ run_job_failed

SpecRestart == InitRestart /\ [][NextRestart]_vars

Running == {job_id \in jobs : job_dicts[job_id].status = RUNNING}

\* C40 as stated: in every state, the states of initialize included, at most
\* max_concurrent_jobs jobs of the job table have the status RUNNING.
C40_RunningAtMostMaxConcurrentJobs == Cardinality(Running) <= scheduler.max_concurrent_jobs

\* C40 as amended: once initialize has returned, at most max_concurrent_jobs
\* jobs have the status RUNNING, each of them in a slot of the semaphore;
\* while initialize runs, the jobs it has not yet reset still have the status
\* RUNNING they were loaded with, next to the jobs its tasks have started.
C40_RunningAtMostMaxConcurrentJobsOnceReady ==
    scheduler.state = "ready"
        => /\ Cardinality(Running) <= scheduler.max_concurrent_jobs
           /\ \A job_id \in Running :
                  tasks[job_id].pc \in {"save_running", "executing"}

C40_Witness ==
    /\ scheduler.state = "ready"
    /\ scheduler.max_concurrent_jobs = 2
    /\ history[1].recovered = PENDING /\ history[2].recovered = PENDING
    /\ history[3].recovered = RUNNING /\ history[4].recovered = RUNNING
    /\ job_dicts[1].status = COMPLETED
    /\ Running = {2, 3}
    /\ job_dicts[4].status = PENDING

====
